---- MODULE Spec2Model ----
(***************************************************************************)
(* A model of the MaxyBot core: the per-user/per-command CooldownManager   *)
(* and the guild configuration cache of MaxyBot (src/bot.py).              *)
(*                                                                         *)
(* Time is counted in whole seconds.  Python dictionaries are functions    *)
(* whose DOMAIN is the set of keys present.                                *)
(***************************************************************************)
EXTENDS Integers, Sequences, FiniteSets, TLC

\* ------------------------------------------------------------------ bounds

MaxTime == 2      \* the clock runs from 0 to MaxTime
MaxCalls == 3     \* admitted acquire calls in one run
MaxSetCalls == 1  \* set_guild_config calls in one run
MaxSaves == 1     \* save_config calls that replace config.json in one run

\* ------------------------------------------------------------------ inputs

Users == {1, 2}
CommandNames == {"ping", "Ping", "daily"}
Registered == {"ping", "Ping"}      \* the names a policy is registered for
Rates == {1, 2}
Pers == {1, 2}

\* str.lower() on the command names of the model
Lower(name) == IF name = "Ping" THEN "ping" ELSE name

\* CooldownManager(default_rate=1, default_per=5.0)
default_rate == 1
default_per == 5

VARIABLES
    now,        \* time.time()
    data,       \* CooldownManager._data: user id -> (command -> timestamps)
    config,     \* CooldownManager.config: command or "global" -> [rate, per]
    lastCall,   \* the last limiter call made at the current time and what it returned
    admitted,   \* history: (user, command) -> times of the calls that returned 0
    ncalls,     \* number of admitted acquire calls so far
    policy,     \* history: command -> the (rate, per) last registered for it
    shadow,     \* the limiter as it would be had no remaining call been made
    config_cache,            \* MaxyBot.config_cache: guild id -> effective config
    config_cache_from_file,  \* MaxyBot.config_cache_from_file: the raw overrides
    config_lock,             \* MaxyBot._config_lock is held
    pc,                      \* where the task holding _config_lock stands
    save_text,               \* the text save_config is writing
    snapshot,                \* the overrides that text was serialised from
    files,                   \* the files on disk: path -> [exists, text]
    lastOp,                  \* the last configuration call and whether it succeeded
    saved,                   \* the overrides serialised by the last save that replaced config.json
    nsets,                   \* number of set_guild_config calls so far
    nsaves,                  \* number of save_config calls that replaced config.json
    fresh,                   \* no set_guild_config was made since the process started
    save_failed,             \* history: a save_config of this process has failed
    seen,                    \* history: the overrides as they stood during the running save
    phase,                   \* where the life of the bot stands, from setup_hook to close
    recent,                  \* history: per guild, the tree get_guild_config returned and the
                             \* calls made for it since the last set, load or save
    inv,                     \* the command invocation being dispatched and where it stands
    heap,                    \* the dicts and lists of the configuration as objects
    raw_ref,                 \* the object config_cache_from_file refers to
    cache_refs,              \* config_cache: guild id -> the object it refers to
    nobjs,                   \* number of calls that have created objects
    nwrites,                 \* number of writes callers made into returned trees
    lastRef,                 \* the last call on the objects and what it returned
    clock,                   \* dt.now(UTC).timestamp()
    giveaways,               \* the rows of table giveaways: message id -> row
    tasks,                   \* where the check_giveaways loop and a g-end command stand
    ended_log,               \* history: message id -> the draws and announcements made
    db_lock,                 \* DatabaseManager._lock: the write that holds it, or 0
    writers,                 \* the tasks that write: task -> the write it makes and where it stands
    pending,                 \* the changes of the open transaction of the connection
    committed,               \* the changes committed, each with the write that committed it
    ndbwrites,               \* number of writes started
    run_once,                \* hasattr(self, "_run_once_on_ready")
    ready,                   \* the on_ready events: event -> where its handler stands
    status_sent,             \* number of online status messages sent
    presence_set,            \* number of change_presence calls that succeeded
    reconnect_logs,          \* number of "Bot reconnected." lines logged
    view,                    \* the PaginatedHelp view of the help message
    presses,                 \* history: the last button presses on that view
    _db,                     \* DatabaseManager._db: the connection, or 0 for None
    nconns,                  \* number of connections aiosqlite.connect has opened
    closed,                  \* the connections that were closed (their _running is False)
    getters,                 \* the tasks that call _get_db: task -> where it stands
    closer,                  \* where the task that calls close() stands
    ngets,                   \* number of _get_db calls so far
    ncloses,                 \* number of close() calls so far
    auto_responses,          \* the rows of table auto_responses
    last_response_id,        \* the last response_id AUTOINCREMENT gave
    response_call,           \* the last add_auto_response or remove_auto_response call
    nresponse_calls,         \* number of those calls so far
    giveaways_columns,       \* the columns of table giveaways, {} before init has run
    posted,                  \* the giveaway messages g-start posted: message id -> message
    starter,                 \* where the g-start command stands
    joins,                   \* the presses of a Join button: task -> where its handler stands
    giveaway_entrants,       \* the rows of table giveaway_entrants: (message, user) -> rows
    reroll,                  \* the last g-reroll command and its answer
    at_end,                  \* history: message id -> how and with which entrants it ended
    nposts,                  \* number of g-start commands so far
    npresses                 \* number of Join presses so far

cooldown_vars == <<now, data, config, lastCall, admitted, ncalls, policy, shadow>>

config_vars == <<config_cache, config_cache_from_file, config_lock, pc, save_text,
                 snapshot, files, lastOp, saved, nsets, nsaves, fresh,
                 save_failed, seen, phase>>

reads_vars == <<recent>>

dispatch_vars == <<inv>>

objects_vars == <<heap, raw_ref, cache_refs, nobjs, nwrites, lastRef>>

giveaway_vars == <<clock, giveaways, tasks, ended_log>>

database_vars == <<db_lock, writers, pending, committed, ndbwrites>>

ready_vars == <<run_once, ready, status_sent, presence_set, reconnect_logs>>

help_vars == <<view, presses>>

\* the variables of the parts of the program modelled further below
connection_vars == <<_db, nconns, closed, getters, closer, ngets, ncloses>>

responses_vars == <<auto_responses, last_response_id, response_call, nresponse_calls>>

entrants_vars == <<giveaways_columns, posted, starter, joins, giveaway_entrants, reroll,
                   at_end, nposts, npresses>>

rest_vars == <<ready_vars, help_vars, connection_vars, responses_vars, entrants_vars>>

\* what the specifications of the limiter and of the configuration leave alone
other_vars == <<reads_vars, dispatch_vars, objects_vars, giveaway_vars, database_vars,
                rest_vars>>

vars == <<now, data, config, lastCall, admitted, ncalls, policy, shadow,
          config_cache, config_cache_from_file, config_lock, pc, save_text,
          snapshot, files, lastOp, saved, nsets, nsaves, fresh,
          save_failed, seen, phase, recent, inv,
          heap, raw_ref, cache_refs, nobjs, nwrites, lastRef,
          clock, giveaways, tasks, ended_log,
          db_lock, writers, pending, committed, ndbwrites, rest_vars>>

\* ------------------------------------------------------- CooldownManager

Keys == {Lower(n) : n \in CommandNames}

NoCall == [op |-> "none", user |-> 0, name |-> "", ret |-> 0, rate |-> 0, per |-> 0]

CooldownInit ==
    /\ now = 0
    /\ data = <<>>
    /\ config = ("global" :> [rate |-> default_rate, per |-> default_per])
    /\ lastCall = NoCall
    /\ admitted = [p \in Users \X Keys |-> <<>>]
    /\ ncalls = 0
    /\ policy = [k \in Keys |-> <<default_rate, default_per>>]
    /\ shadow = [data |-> <<>>, ret |-> 0]

\* get_config: the policy of the lower-cased name, or the "global" one
get_config(command_name) ==
    LET name == Lower(command_name)
        cfg == IF name \in DOMAIN config THEN config[name] ELSE config["global"]
    IN  <<cfg.rate, cfg.per>>

\* timestamps[:] = [t for t in timestamps if t > cutoff]
PruneKeepsBoundary(timestamps, cutoff) == SelectSeq(timestamps, LAMBDA t : t >= cutoff)
Prune(timestamps, cutoff) == SelectSeq(timestamps, LAMBDA t : t > cutoff)

\* if len(timestamps) < rate
HasTokenOffByOne(timestamps, rate) == Len(timestamps) <= rate
HasToken(timestamps, rate) == Len(timestamps) < rate

\* max(0.0, retry_after)
Max(a, b) == IF a >= b THEN a ELSE b

\* self._data.setdefault(user_id, {}).setdefault(command_name, []) in d
TimestampsIn(d, user_id, key) ==
    IF user_id \in DOMAIN d /\ key \in DOMAIN d[user_id]
    THEN d[user_id][key] ELSE <<>>

Timestamps(user_id, key) == TimestampsIn(data, user_id, key)

\* the dictionary d with d[user_id][key] = timestamps
WithTimestampsLosing(d, user_id, key, timestamps) ==
    (user_id :> (key :> timestamps)) @@ d
WithTimestampsShared(d, user_id, key, timestamps) ==
    LET user_rec == IF user_id \in DOMAIN d THEN d[user_id] ELSE <<>>
    IN  (user_id :> [k \in DOMAIN user_rec \cup {key} |-> timestamps]) @@ d
WithTimestamps(d, user_id, key, timestamps) ==
    LET user_rec == IF user_id \in DOMAIN d THEN d[user_id] ELSE <<>>
        new_rec == (key :> timestamps) @@ user_rec
    IN  (user_id :> new_rec) @@ d

\* the key set_command_cooldown stores the policy under
PolicyKeyAsGiven(command_name) == command_name
PolicyKey(command_name) == Lower(command_name)

set_command_cooldown(command_name, rate, per) ==
    /\ config' = (PolicyKey(command_name) :> [rate |-> rate, per |-> per]) @@ config
    /\ policy' = [policy EXCEPT ![Lower(command_name)] = <<rate, per>>]
    /\ UNCHANGED <<now, data, lastCall, admitted, ncalls, shadow>>

\* retry_after = per - (now - timestamps[0])
RetryAfterNewest(per, timestamps) == per - (now - timestamps[Len(timestamps)])
retry_after(per, timestamps) == per - (now - timestamps[1])

\* acquire(user_id, command_name) on the histories d: what it returns and the
\* histories it leaves.  The lock is free whenever a task reaches it, since no
\* task awaits while holding it, so the whole call is one step.
acquire_in(d, user_id, command_name) ==
    LET key == Lower(command_name)
        rate == get_config(key)[1]
        per == get_config(key)[2]
        cutoff == now - per
        timestamps == Prune(TimestampsIn(d, user_id, key), cutoff)
        allowed == HasToken(timestamps, rate)
    IN  [ret |-> IF allowed THEN 0 ELSE Max(0, retry_after(per, timestamps)),
         rate |-> rate,
         per |-> per,
         data |-> WithTimestamps(d, user_id, key,
                        IF allowed THEN Append(timestamps, now) ELSE timestamps)]

acquire(user_id, command_name) ==
    LET key == Lower(command_name)
        out == acquire_in(data, user_id, command_name)
        ghost == acquire_in(shadow.data, user_id, command_name)
    IN  /\ ncalls < MaxCalls
        /\ data' = out.data
        /\ lastCall' = [op |-> "acquire", user |-> user_id, name |-> command_name,
                        ret |-> out.ret, rate |-> out.rate, per |-> out.per]
        /\ admitted' = IF out.ret = 0
                       THEN [admitted EXCEPT ![<<user_id, key>>] = Append(@, now)]
                       ELSE admitted
        /\ ncalls' = IF out.ret = 0 THEN ncalls + 1 ELSE ncalls
        /\ shadow' = [data |-> ghost.data, ret |-> ghost.ret]
        /\ UNCHANGED <<now, config, policy>>

\* the rate remaining compares with: self.config.get(command_name,
\* self.config["global"]).get("rate", self.default_rate)
GlobalRate(key) == config["global"].rate
remaining_rate(key) ==
    (IF key \in DOMAIN config THEN config[key] ELSE config["global"]).rate

\* remaining(user_id, command_name): what it returns and the histories it leaves
remaining_in(d, user_id, command_name) ==
    LET key == Lower(command_name)
        per == get_config(key)[2]
        rate == remaining_rate(key)
        old == TimestampsIn(d, user_id, key)
        cutoff == now - per
        timestamps == Prune(old, cutoff)
    IN  [ret |-> IF old = <<>> THEN 0
                 ELSE IF Len(timestamps) < rate THEN 0
                 ELSE per - (now - timestamps[1]),
         rate |-> rate,
         per |-> per,
         data |-> IF old = <<>> THEN d
                  ELSE WithTimestamps(d, user_id, key, timestamps)]

remaining(user_id, command_name) ==
    LET out == remaining_in(data, user_id, command_name)
    IN  /\ data' = out.data
        /\ lastCall' = [op |-> "remaining", user |-> user_id, name |-> command_name,
                        ret |-> out.ret, rate |-> out.rate, per |-> out.per]
        /\ UNCHANGED <<now, config, admitted, ncalls, policy, shadow>>

\* the clock advances
Tick ==
    /\ now < MaxTime
    /\ now' = now + 1
    /\ lastCall' = NoCall
    /\ UNCHANGED <<data, config, admitted, ncalls, policy, shadow>>

SetCommandCooldown == \E n \in Registered, r \in Rates, w \in Pers : set_command_cooldown(n, r, w)
Acquire == \E u \in Users, n \in CommandNames : acquire(u, n)
Remaining == \E u \in Users, n \in CommandNames : remaining(u, n)

\* policies are registered at startup, before the first call
Registration ==
    /\ now = 0
    /\ ncalls = 0
    /\ SetCommandCooldown

\* ------------------------------------------------------- Python values
\* A value is a record [t, s, n, c]: t names the Python type, s is the text of
\* a str, n the number of an int (1 or 0 for a bool), c the content of a dict
\* (a function from its keys) or of a list (a function from "1", "2", ...).

Str(x) == [t |-> "str", s |-> x, n |-> 0, c |-> <<>>]
Num(x) == [t |-> "num", s |-> "", n |-> x, c |-> <<>>]
Bool(b) == [t |-> "bool", s |-> "", n |-> IF b THEN 1 ELSE 0, c |-> <<>>]
None == [t |-> "null", s |-> "", n |-> 0, c |-> <<>>]
List(seq) == [t |-> "list", s |-> "", n |-> Len(seq),
              c |-> [k \in {ToString(i) : i \in 1..Len(seq)} |->
                        seq[CHOOSE i \in 1..Len(seq) : ToString(i) = k]]]
Dict(f) == [t |-> "dict", s |-> "", n |-> 0, c |-> f]
EmptyDict == Dict(<<>>)

\* isinstance(x, dict)
IsDict(x) == x.t = "dict"

\* d with d[k] = x
DictSet(d, k, x) == Dict((k :> x) @@ d.c)

\* the value at a key path of a tree
RECURSIVE GetPath(_, _)
GetPath(tree, path) ==
    IF path = <<>> THEN tree ELSE GetPath(tree.c[Head(path)], Tail(path))

DEFAULT_PREFIX == "m!"

\* get_default_config(); the emoji of levelup_message and currency_symbol are
\* written as words
get_default_config ==
    Dict([
        prefix |-> Str(DEFAULT_PREFIX),
        welcome |-> Dict([
            enabled |-> Bool(FALSE),
            channel_id |-> None,
            message |-> Str("Welcome {user.mention} to {guild.name}!"),
            embed |-> Dict([
                enabled |-> Bool(TRUE),
                title |-> Str("New Member!"),
                description |-> Str("We're glad to have you.")])]),
        goodbye |-> Dict([
            enabled |-> Bool(FALSE),
            channel_id |-> None,
            message |-> Str("Goodbye {user.name}!"),
            embed |-> Dict([
                enabled |-> Bool(TRUE),
                title |-> Str("Member Left"),
                description |-> Str("We'll miss them.")])]),
        logging |-> Dict([
            enabled |-> Bool(FALSE),
            channel_id |-> None,
            events |-> Dict([
                message_delete |-> Bool(TRUE),
                message_edit |-> Bool(TRUE),
                member_join |-> Bool(TRUE),
                member_leave |-> Bool(TRUE),
                member_update |-> Bool(TRUE),
                role_update |-> Bool(TRUE),
                channel_update |-> Bool(TRUE),
                voice_update |-> Bool(TRUE)])]),
        moderation |-> Dict([
            mute_role_id |-> None,
            mod_log_channel_id |-> None,
            allowed_roles |-> List(<<>>)]),
        automod |-> Dict([
            enabled |-> Bool(TRUE),
            anti_link |-> Bool(FALSE),
            anti_invite |-> Bool(FALSE),
            anti_spam |-> Bool(FALSE),
            bad_words_enabled |-> Bool(FALSE),
            bad_words_list |-> List(<<>>)]),
        leveling |-> Dict([
            enabled |-> Bool(TRUE),
            levelup_message |-> Str("(party) Congrats {user.mention}, you reached **Level {level}**!"),
            xp_per_message_min |-> Num(15),
            xp_per_message_max |-> Num(25),
            xp_cooldown_seconds |-> Num(60)]),
        economy |-> Dict([
            enabled |-> Bool(TRUE),
            start_balance |-> Num(100),
            currency_symbol |-> Str("(coin)"),
            currency_name |-> Str("Maxy Coin")]),
        tickets |-> Dict([
            enabled |-> Bool(FALSE),
            category_id |-> None,
            support_role_id |-> None,
            transcript_channel_id |-> None,
            panel_channel_id |-> None]),
        autorole |-> Dict([
            enabled |-> Bool(FALSE),
            human_role_id |-> None,
            bot_role_id |-> None]),
        starboard |-> Dict([
            enabled |-> Bool(FALSE),
            channel_id |-> None,
            star_count |-> Num(5)]),
        autoresponder |-> Dict([enabled |-> Bool(TRUE)]),
        disabled_commands |-> List(<<>>)])

\* _recursive_update(d, u): for each key of u, recurse when both values are
\* dicts, else take u's value; the other keys of d stay
RECURSIVE _recursive_update(_, _)
ShallowUpdate(d, u) ==
    Dict([k \in DOMAIN d.c \cup DOMAIN u.c |-> IF k \in DOMAIN u.c THEN u.c[k] ELSE d.c[k]])
_recursive_update(d, u) ==
    Dict([k \in DOMAIN d.c \cup DOMAIN u.c |->
            IF k \notin DOMAIN u.c THEN d.c[k]
            ELSE IF IsDict(u.c[k]) /\ k \in DOMAIN d.c /\ IsDict(d.c[k])
                 THEN _recursive_update(d.c[k], u.c[k])
                 ELSE u.c[k]])

\* the walk of set_guild_config from current_level along key_path: the dict as
\* the walk leaves it, and whether it ended without raising.  setdefault puts
\* an empty dict under a missing key before the isinstance test.
RECURSIVE WalkAndSet(_, _, _)
RECURSIVE WalkAndSetOverwriting(_, _, _)
WalkAndSetOverwriting(current_level, key_path, value) ==
    IF Len(key_path) = 1
    THEN [ok |-> TRUE, tree |-> DictSet(current_level, key_path[1], value)]
    ELSE LET key == key_path[1]
             nested == IF key \in DOMAIN current_level.c /\ IsDict(current_level.c[key])
                       THEN current_level.c[key] ELSE EmptyDict
             r == WalkAndSetOverwriting(nested, Tail(key_path), value)
         IN  [ok |-> r.ok, tree |-> DictSet(current_level, key, r.tree)]
WalkAndSet(current_level, key_path, value) ==
    IF Len(key_path) = 1
    THEN [ok |-> TRUE, tree |-> DictSet(current_level, key_path[1], value)]
    ELSE LET key == key_path[1]
             nested == IF key \in DOMAIN current_level.c
                       THEN current_level.c[key] ELSE EmptyDict
         IN  IF ~IsDict(nested)
             THEN [ok |-> FALSE, tree |-> DictSet(current_level, key, nested)]
             ELSE LET r == WalkAndSet(nested, Tail(key_path), value)
                  IN  [ok |-> r.ok, tree |-> DictSet(current_level, key, r.tree)]

\* ------------------------------------------------------- JSON text
\* The text of a JSON document is its sequence of tokens: the punctuation marks
\* and the scalar values.  A file written in part holds a prefix of its text.

Punct(x) == [t |-> x, s |-> "", n |-> 0, c |-> <<>>]
IsScalar(x) == x.t \in {"str", "num", "bool", "null"}

RECURSIVE SetToSeq(_)
SetToSeq(S) == IF S = {} THEN <<>>
               ELSE LET x == CHOOSE y \in S : TRUE IN <<x>> \o SetToSeq(S \ {x})

\* json.dumps(x)
RECURSIVE json_dumps(_)
RECURSIVE DumpItems(_, _)
RECURSIVE DumpElems(_, _)
json_dumps(x) ==
    IF x.t = "dict"
    THEN <<Punct("{")>> \o DumpItems(x.c, SetToSeq(DOMAIN x.c)) \o <<Punct("}")>>
    ELSE IF x.t = "list"
    THEN <<Punct("[")>> \o DumpElems(x, 1) \o <<Punct("]")>>
    ELSE <<x>>
DumpItems(f, keys) ==
    IF keys = <<>> THEN <<>>
    ELSE <<Str(keys[1]), Punct(":")>> \o json_dumps(f[keys[1]])
         \o (IF Len(keys) > 1 THEN <<Punct(",")>> ELSE <<>>)
         \o DumpItems(f, Tail(keys))
DumpElems(x, i) ==
    IF i > x.n THEN <<>>
    ELSE json_dumps(x.c[ToString(i)])
         \o (IF i < x.n THEN <<Punct(",")>> ELSE <<>>)
         \o DumpElems(x, i + 1)

\* json.loads(text): [ok, val]; ok is FALSE for JSONDecodeError
ParseFail == [ok |-> FALSE, val |-> None, rest |-> <<>>]
RECURSIVE ParseValue(_)
RECURSIVE ParseMembers(_, _)
RECURSIVE ParseElems(_, _)
ParseValue(ts) ==
    IF ts = <<>> THEN ParseFail
    ELSE IF IsScalar(ts[1]) THEN [ok |-> TRUE, val |-> ts[1], rest |-> Tail(ts)]
    ELSE IF ts[1].t = "{"
    THEN IF Len(ts) >= 2 /\ ts[2].t = "}"
         THEN [ok |-> TRUE, val |-> EmptyDict, rest |-> SubSeq(ts, 3, Len(ts))]
         ELSE ParseMembers(Tail(ts), <<>>)
    ELSE IF ts[1].t = "["
    THEN IF Len(ts) >= 2 /\ ts[2].t = "]"
         THEN [ok |-> TRUE, val |-> List(<<>>), rest |-> SubSeq(ts, 3, Len(ts))]
         ELSE ParseElems(Tail(ts), <<>>)
    ELSE ParseFail
ParseMembers(ts, acc) ==
    IF Len(ts) < 3 \/ ts[1].t # "str" \/ ts[2].t # ":" THEN ParseFail
    ELSE LET r == ParseValue(SubSeq(ts, 3, Len(ts)))
             members == (ts[1].s :> r.val) @@ acc
         IN  IF ~r.ok \/ r.rest = <<>> THEN ParseFail
             ELSE IF r.rest[1].t = "}"
             THEN [ok |-> TRUE, val |-> Dict(members), rest |-> Tail(r.rest)]
             ELSE IF r.rest[1].t = ","
             THEN ParseMembers(Tail(r.rest), members)
             ELSE ParseFail
ParseElems(ts, acc) ==
    LET r == ParseValue(ts)
        elems == Append(acc, r.val)
    IN  IF ~r.ok \/ r.rest = <<>> THEN ParseFail
        ELSE IF r.rest[1].t = "]"
        THEN [ok |-> TRUE, val |-> List(elems), rest |-> Tail(r.rest)]
        ELSE IF r.rest[1].t = ","
        THEN ParseElems(Tail(r.rest), elems)
        ELSE ParseFail
json_loads(text) ==
    LET r == ParseValue(text)
    IN  IF r.ok /\ r.rest = <<>> THEN [ok |-> TRUE, val |-> r.val]
        ELSE [ok |-> FALSE, val |-> None]

\* ------------------------------------------------------- guild configuration

Guilds == {42, 43}

\* the (key_path, value) pairs set_guild_config is called with
Settings == {
    <<<<"prefix">>, Str("?")>>,
    <<<<"prefix", "x">>, Num(1)>>,
    <<<<"welcome", "embed", "enabled">>, Bool(FALSE)>>,
    <<<<"leveling", "xp_per_message_min">>, Num(50)>>,
    <<<<"welcome">>, Dict([enabled |-> Bool(TRUE)])>>,
    <<<<"welcome", "embed">>, Num(0)>>,
    <<<<"moderation", "allowed_roles">>, List(<<Num(7), None>>)>> }

\* raw.get(str(guild_id), {})
Overrides(raw, guild_id) ==
    IF ToString(guild_id) \in DOMAIN raw.c THEN raw.c[ToString(guild_id)] ELSE EmptyDict

\* self.config_path and temp_path of save_config
config_path == "config.json"
temp_path_in_place == "config.json"
temp_path == "config.json.tmp"

NoFile == [exists |-> FALSE, text |-> <<>>]
FileOf(text) == [exists |-> TRUE, text |-> text]

\* what config.json may hold when the process starts
InitialFiles == {
    NoFile,
    FileOf(<<Punct("{")>>),
    FileOf(json_dumps(List(<<>>))),
    FileOf(json_dumps(EmptyDict)),
    FileOf(json_dumps(Dict([guild_settings |-> Num(5)]))),
    FileOf(json_dumps(Dict([guild_settings |->
        Dict(("42" :> Dict([prefix |-> Str("?"),
                            welcome |-> Dict([embed |-> Num(0)])])))]))) }

NoOp == [op |-> "none", g |-> 0, p |-> <<>>, v |-> None, ok |-> TRUE]
Op(name, ok) == [op |-> name, g |-> 0, p |-> <<>>, v |-> None, ok |-> ok]

NoneReturned == [calls |-> 0, tree |-> None]

ConfigInit ==
    /\ config_cache = <<>>
    /\ config_cache_from_file = EmptyDict
    /\ config_lock = FALSE
    /\ pc = "idle"
    /\ save_text = <<>>
    /\ snapshot = None
    /\ files \in {(config_path :> f) @@ (temp_path :> NoFile) : f \in InitialFiles}
    /\ lastOp = NoOp
    /\ saved = [has |-> FALSE, doc |-> None]
    /\ nsets = 0
    /\ nsaves = 0
    /\ fresh = TRUE
    /\ save_failed = FALSE
    /\ seen = {}
    /\ phase = "starting"
    /\ recent = [g \in Guilds |-> NoneReturned]

\* data.get("guild_settings", {}) of load_config; ok is FALSE when data has no get
LoadedWhole(json_data) == [ok |-> TRUE, val |-> json_data]
LoadedSettings(json_data) ==
    IF ~IsDict(json_data) THEN [ok |-> FALSE, val |-> EmptyDict]
    ELSE IF "guild_settings" \in DOMAIN json_data.c
    THEN [ok |-> TRUE, val |-> json_data.c["guild_settings"]]
    ELSE [ok |-> TRUE, val |-> EmptyDict]

\* load_config up to its first await; a missing file ends it at once
LoadStart ==
    /\ ~config_lock
    /\ IF ~files[config_path].exists
       THEN /\ config_cache_from_file' = EmptyDict
            /\ lastOp' = Op("load", FALSE)
            /\ UNCHANGED <<config_lock, pc>>
       ELSE /\ config_lock' = TRUE
            /\ pc' = "load_read"
            /\ UNCHANGED <<config_cache_from_file, lastOp>>
    /\ UNCHANGED <<config_cache, save_text, snapshot, files, saved, nsets, nsaves, fresh>>

\* load_config after the file was read (io_ok) or the read failed
load_finish(io_ok) ==
    LET parsed == json_loads(files[config_path].text)
        got == LoadedSettings(parsed.val)
        ok == io_ok /\ parsed.ok /\ got.ok
    IN  /\ pc = "load_read"
        /\ config_cache_from_file' = IF ok THEN got.val ELSE EmptyDict
        /\ lastOp' = Op("load", ok)
        /\ config_lock' = FALSE
        /\ pc' = "idle"
        /\ UNCHANGED <<config_cache, save_text, snapshot, files, saved, nsets, nsaves, fresh>>

LoadFinish == \E io_ok \in BOOLEAN : load_finish(io_ok)

\* os.replace(src, dst)
os_replace(fs, src, dst) ==
    IF src = dst THEN fs
    ELSE [fs EXCEPT ![dst] = fs[src], ![src] = NoFile]

\* what a failed or interrupted write may leave: nothing, or the first token
Truncations(text) ==
    IF text = <<>> THEN {} ELSE {<<>>, <<text[1]>>}

\* save_config up to the await of aiofiles.open
SaveStart ==
    /\ ~config_lock
    /\ nsaves < MaxSaves
    /\ config_lock' = TRUE
    /\ pc' = "save_open"
    /\ UNCHANGED <<config_cache, config_cache_from_file, save_text, snapshot, files,
                   lastOp, saved, nsets, nsaves, fresh>>

\* full_config as json.dumps reads it
full_config_torn ==
    Dict([guild_settings |->
        IF IsDict(config_cache_from_file)
        THEN Dict([g \in DOMAIN config_cache_from_file.c |-> EmptyDict])
        ELSE config_cache_from_file])
full_config == Dict([guild_settings |-> config_cache_from_file])

\* the temporary file is open (and empty); json.dumps runs and the write starts
save_open(io_ok) ==
    /\ pc = "save_open"
    /\ IF io_ok
       THEN /\ files' = [files EXCEPT ![temp_path] = FileOf(<<>>)]
            /\ save_text' = json_dumps(full_config)
            /\ snapshot' = config_cache_from_file
            /\ pc' = "save_write"
            /\ UNCHANGED <<config_lock, lastOp>>
       ELSE /\ lastOp' = Op("save", FALSE)
            /\ config_lock' = FALSE
            /\ pc' = "idle"
            /\ UNCHANGED <<files, save_text, snapshot>>
    /\ UNCHANGED <<config_cache, config_cache_from_file, saved, nsets, nsaves, fresh>>

SaveOpen == \E io_ok \in BOOLEAN : save_open(io_ok)

\* the write has ended: in full, or json.dumps or the write raised and left
\* nothing or a prefix in the file
save_write(written) ==
    /\ pc = "save_write"
    /\ files' = [files EXCEPT ![temp_path] = FileOf(written)]
    /\ IF written = save_text
       THEN /\ pc' = "save_close"
            /\ UNCHANGED <<config_lock, lastOp, save_text, snapshot>>
       ELSE /\ lastOp' = Op("save", FALSE)
            /\ config_lock' = FALSE
            /\ pc' = "idle"
            /\ save_text' = <<>>
            /\ snapshot' = None
    /\ UNCHANGED <<config_cache, config_cache_from_file, saved, nsets, nsaves, fresh>>

SaveWrite == \E written \in {save_text} \cup Truncations(save_text) : save_write(written)

\* self.config_cache.clear()
ClearedOfChanged(cache) ==
    [g \in {h \in DOMAIN cache :
                /\ IsDict(config_cache_from_file)
                /\ IsDict(Overrides(config_cache_from_file, h))
                /\ cache[h] = _recursive_update(get_default_config,
                                                Overrides(config_cache_from_file, h))}
        |-> cache[g]]
Cleared(cache) == <<>>

\* os.replace and then self.config_cache.clear(), which a failed replace skips
CacheClearedFirst(io_ok) == <<>>
CacheAfterReplace(io_ok) == IF io_ok THEN Cleared(config_cache) ELSE config_cache

\* the file is closed: os.replace, config_cache.clear(), or the replace fails
save_replace(io_ok) ==
    /\ pc = "save_close"
    /\ config_cache' = CacheAfterReplace(io_ok)
    /\ IF io_ok
       THEN /\ files' = os_replace(files, temp_path, config_path)
            /\ saved' = [has |-> TRUE, doc |-> snapshot]
            /\ nsaves' = nsaves + 1
       ELSE UNCHANGED <<files, saved, nsaves>>
    /\ lastOp' = Op("save", io_ok)
    /\ config_lock' = FALSE
    /\ pc' = "idle"
    /\ save_text' = <<>>
    /\ snapshot' = None
    /\ UNCHANGED <<config_cache_from_file, nsets, fresh>>

SaveReplace == \E io_ok \in BOOLEAN : save_replace(io_ok)

\* final_config of get_guild_config: the defaults updated with the saved settings
Merged(saved_settings) == _recursive_update(get_default_config, saved_settings)

\* self.config_cache_from_file.get(guild_id_str, {})
SavedSettings(guild_id) == Overrides(config_cache_from_file, guild_id)

\* what get_guild_config(guild_id) returns: the cached tree, or the merge; ok is
\* FALSE when it raises (the raw overrides, or the guild's, are no dict)
get_result(guild_id) ==
    IF guild_id \in DOMAIN config_cache
    THEN [ok |-> TRUE, tree |-> config_cache[guild_id]]
    ELSE IF ~IsDict(config_cache_from_file) \/ ~IsDict(SavedSettings(guild_id))
    THEN [ok |-> FALSE, tree |-> None]
    ELSE [ok |-> TRUE, tree |-> Merged(SavedSettings(guild_id))]

\* get_guild_config(guild_id): a merge is stored in config_cache
NotStored(cache, guild_id, final_config) == cache
Stored(cache, guild_id, final_config) == (guild_id :> final_config) @@ cache

get_guild_config(guild_id) ==
    LET r == get_result(guild_id)
    IN  /\ lastOp' = [op |-> "get", g |-> guild_id, p |-> <<>>, v |-> None, ok |-> r.ok]
        /\ config_cache' = IF r.ok /\ guild_id \notin DOMAIN config_cache
                           THEN Stored(config_cache, guild_id, r.tree)
                           ELSE config_cache

GetGuildConfig ==
    /\ \E g \in Guilds : get_guild_config(g)
    /\ UNCHANGED <<config_cache_from_file, config_lock, pc, save_text, snapshot, files,
                   saved, nsets, nsaves, fresh>>

\* del self.config_cache[guild_id]
ClearAll(cache, guild_id) == <<>>
Evict(cache, guild_id) == [h \in DOMAIN cache \ {guild_id} |-> cache[h]]

\* set_guild_config(guild_id, key_path, value)
set_guild_config(guild_id, key_path, value) ==
    LET guild_id_str == ToString(guild_id)
        raw == config_cache_from_file
        with_guild == IF guild_id_str \in DOMAIN raw.c THEN raw
                      ELSE DictSet(raw, guild_id_str, EmptyDict)
        current_level == with_guild.c[guild_id_str]
        walk == WalkAndSet(current_level, key_path, value)
        rec(ok) == [op |-> "set", g |-> guild_id, p |-> key_path, v |-> value, ok |-> ok]
    IN  IF ~IsDict(raw) \/ ~IsDict(current_level)
        THEN /\ lastOp' = rec(FALSE)
             /\ UNCHANGED <<config_cache_from_file, config_cache>>
        ELSE /\ config_cache_from_file' = DictSet(with_guild, guild_id_str, walk.tree)
             /\ config_cache' = IF walk.ok THEN Evict(config_cache, guild_id)
                                ELSE config_cache
             /\ lastOp' = rec(walk.ok)

SetGuildConfig ==
    /\ nsets < MaxSetCalls
    /\ nsets' = nsets + 1
    /\ fresh' = FALSE
    /\ \E g \in Guilds, kv \in Settings : set_guild_config(g, kv[1], kv[2])
    /\ UNCHANGED <<config_lock, pc, save_text, snapshot, files, saved, nsaves>>

\* the process ends at any point and a new one starts: memory is lost, the
\* files stay; an open or a write under way may or may not have reached the disk
CrashOutcomes ==
    IF pc = "save_open"
    THEN {files, [files EXCEPT ![temp_path] = FileOf(<<>>)]}
    ELSE IF pc = "save_write"
    THEN {[files EXCEPT ![temp_path] = FileOf(w)] : w \in {save_text} \cup Truncations(save_text)}
    ELSE {files}

Restart ==
    /\ files' \in CrashOutcomes
    /\ config_cache' = <<>>
    /\ config_cache_from_file' = EmptyDict
    /\ config_lock' = FALSE
    /\ pc' = "idle"
    /\ save_text' = <<>>
    /\ snapshot' = None
    /\ fresh' = TRUE
    /\ lastOp' = Op("restart", TRUE)
    /\ UNCHANGED <<saved, nsets, nsaves>>

\* ------------------------------------------------------- command dispatch
\* An invocation is a record: kind is how the command was named (a prefix
\* message, a slash command, or a hybrid command used as a slash command), bot
\* whether its author is a bot, interaction whether its context carries an
\* interaction, stage the handler that runs next or the way it ended, acquires
\* the acquire calls made for it, ret what the last of them returned and
\* retry_after the value carried by the CommandOnCooldown raised for it.

NoInvocation ==
    [kind |-> "none", user |-> 0, bot |-> FALSE, name |-> "", interaction |-> FALSE,
     stage |-> "idle", acquires |-> 0, ret |-> 0, retry_after |-> 0]

DispatchInit == inv = NoInvocation

Settled == inv.stage \in {"idle", "ignored", "body", "CommandOnCooldown"}

\* on_message: the message of a bot is dropped; any other goes to
\* process_commands, which invokes the command it names
on_message(author, is_bot, n) ==
    /\ Settled
    /\ inv' = [kind |-> "prefix", user |-> author, bot |-> is_bot, name |-> n,
               interaction |-> FALSE,
               stage |-> IF is_bot THEN "ignored" ELSE "before_invoke",
               acquires |-> 0, ret |-> 0, retry_after |-> 0]
    /\ UNCHANGED cooldown_vars

\* an interaction naming an application command comes to tree.interaction_check
on_interaction(user, is_bot, n, hybrid) ==
    /\ Settled
    /\ inv' = [kind |-> IF hybrid THEN "hybrid" ELSE "slash", user |-> user,
               bot |-> is_bot, name |-> n, interaction |-> TRUE,
               stage |-> "interaction_check",
               acquires |-> 0, ret |-> 0, retry_after |-> 0]
    /\ UNCHANGED cooldown_vars

\* the handler's call of self.cooldowns.acquire and what it does with the result:
\* CommandOnCooldown(cooldown, remaining) if remaining > 0, else on to `next`
acquire_or_raise(next) ==
    LET remaining_ == acquire_in(data, inv.user, Lower(inv.name)).ret
    IN  /\ acquire(inv.user, Lower(inv.name))
        /\ inv' = [inv EXCEPT !.acquires = @ + 1,
                              !.ret = remaining_,
                              !.stage = IF remaining_ > 0 THEN "CommandOnCooldown" ELSE next,
                              !.retry_after = IF remaining_ > 0 THEN remaining_ ELSE 0]

\* if not interaction.user or interaction.user.bot: return True
\* after the check a slash command runs its body, a hybrid one goes through the
\* before_invoke hook of the bot
_app_cmd_cooldown ==
    LET next == IF inv.kind = "hybrid" THEN "before_invoke" ELSE "body"
    IN  /\ inv.stage = "interaction_check"
        /\ IF inv.bot
           THEN /\ inv' = [inv EXCEPT !.stage = next]
                /\ UNCHANGED cooldown_vars
           ELSE acquire_or_raise(next)

\* if getattr(ctx, "interaction", None): return
SkipsNothing(i) == FALSE
SkipsHook(i) == i.interaction

_global_before_invoke ==
    /\ inv.stage = "before_invoke"
    /\ IF SkipsHook(inv)
       THEN /\ inv' = [inv EXCEPT !.stage = "body"]
            /\ UNCHANGED cooldown_vars
       ELSE acquire_or_raise("body")

OnMessage == \E u \in Users, b \in BOOLEAN, n \in CommandNames : on_message(u, b, n)
OnInteraction ==
    \E u \in Users, b \in BOOLEAN, n \in CommandNames, h \in BOOLEAN : on_interaction(u, b, n, h)

\* ------------------------------------------------------- configuration objects
\* The dicts and lists of the configuration as Python objects.  An object has
\* an address <<n, path>>: n numbers the call that created it and path tells
\* which of the objects of that call it is.  heap maps an address to the
\* object, [t, c], where c maps a key (an index, for a list) to a cell: a str,
\* number or None as before, or a reference to an object.

MaxObjects == 3
MaxWrites == 1

Ref(address) == [t |-> "ref", s |-> "", n |-> 0, c |-> address]
IsContainer(x) == x.t \in {"dict", "list"}
IsRefTo(h, cell, type) == cell.t = "ref" /\ h[cell.c].t = type

\* the key paths of the dicts and lists of a tree, the tree itself included
RECURSIVE ContainerPaths(_)
ContainerPaths(tree) ==
    {<<>>} \cup UNION {{<<k>> \o p : p \in ContainerPaths(tree.c[k])} :
                        k \in {j \in DOMAIN tree.c : IsContainer(tree.c[j])}}

\* the objects a call n creates for a tree of dicts and lists, written as a
\* literal or parsed from JSON: one new object for each dict and list of it
Alloc(tree, n, prefix) ==
    [a \in {<<n, prefix \o p>> : p \in ContainerPaths(tree)} |->
        LET sub == GetPath(tree, SubSeq(a[2], Len(prefix) + 1, Len(a[2])))
        IN  [t |-> sub.t,
             c |-> [k \in DOMAIN sub.c |->
                        IF IsContainer(sub.c[k]) THEN Ref(<<n, Append(a[2], k)>>)
                        ELSE sub.c[k]]]]

\* the tree a cell stands for
RECURSIVE Value(_, _)
Value(h, cell) ==
    IF cell.t # "ref" THEN cell
    ELSE LET obj == h[cell.c]
         IN  [t |-> obj.t, s |-> "",
              n |-> IF obj.t = "list" THEN Cardinality(DOMAIN obj.c) ELSE 0,
              c |-> [k \in DOMAIN obj.c |-> Value(h, obj.c[k])]]

\* the objects that can be reached from an object
RECURSIVE Reach(_, _)
Reach(h, a) ==
    {a} \cup UNION {Reach(h, h[a].c[k].c) : k \in {j \in DOMAIN h[a].c : h[a].c[j].t = "ref"}}

\* the override documents load_config may have parsed
LoadedDocs == {
    Dict(("42" :> Dict([prefix |-> Str("?"), welcome |-> Dict([embed |-> Num(0)])]))),
    Dict(("43" :> Dict([moderation |-> Dict([allowed_roles |-> List(<<Num(7)>>)]),
                        extra |-> Dict([a |-> Num(1)]),
                        welcome |-> Dict([embed |-> Dict([title |-> Str("Hi")])])]))) }

\* the settings callers make: a list, a dict, a number in place of a dict and
\* a dict in place of a str
ObjectSettings == {
    <<<<"moderation", "allowed_roles">>, List(<<Num(7), None>>)>>,
    <<<<"welcome">>, Dict([enabled |-> Bool(TRUE)])>>,
    <<<<"welcome", "embed">>, Num(0)>>,
    <<<<"prefix", "x">>, Num(1)>> }

NoRef == [op |-> "none", g |-> 0, at |-> <<0, <<>>>>, ok |-> TRUE, hit |-> FALSE]

\* self.config_cache_from_file = {} and self.config_cache = {} of __init__
ObjectsInit ==
    /\ heap = Alloc(EmptyDict, 0, <<>>)
    /\ raw_ref = <<0, <<>>>>
    /\ cache_refs = <<>>
    /\ nobjs = 0
    /\ nwrites = 0
    /\ lastRef = NoRef

\* load_config: self.config_cache_from_file = data.get("guild_settings", {})
load_config_ref(doc) ==
    /\ nobjs < MaxObjects
    /\ nobjs' = nobjs + 1
    /\ heap' = Alloc(doc, nobjs + 1, <<>>) @@ heap
    /\ raw_ref' = <<nobjs + 1, <<>>>>
    /\ lastRef' = [NoRef EXCEPT !.op = "load"]
    /\ UNCHANGED <<cache_refs, nwrites>>

\* the call that creates the objects of get_default_config()
SharedDefaults(n) == -1
DefaultsOf(n) == n

\* _recursive_update(d, u) on the objects d and u: the heap it leaves.  It
\* writes into d; a value of u that is not merged is stored in d as it is, a
\* reference to the same object when it is a dict or a list.
RECURSIVE UpdateKeys(_, _, _, _)
RECURSIVE recursive_update_ref(_, _, _)
RecursedIntoOverrides(h, d, k, v) ==
    [recursive_update_ref(h, v.c, h[d].c[k].c) EXCEPT ![d].c = (k :> v) @@ @]
Recursed(h, d, k, v) == recursive_update_ref(h, h[d].c[k].c, v.c)

UpdateKeys(h, d, u, keys) ==
    IF keys = <<>> THEN h
    ELSE LET k == Head(keys)
             v == h[u].c[k]
             both == /\ IsRefTo(h, v, "dict")
                     /\ k \in DOMAIN h[d].c
                     /\ IsRefTo(h, h[d].c[k], "dict")
             h1 == IF both THEN Recursed(h, d, k, v)
                   ELSE [h EXCEPT ![d].c = (k :> v) @@ @]
         IN  UpdateKeys(h1, d, u, Tail(keys))

recursive_update_ref(h, d, u) == UpdateKeys(h, d, u, SetToSeq(DOMAIN h[u].c))

\* get_guild_config(guild_id) on the objects: the heap and cache it leaves and
\* the object it returns
get_in(h, cache, guild_id, n) ==
    LET guild_id_str == ToString(guild_id)
        final_config == <<DefaultsOf(n), <<>>>>
        h1 == Alloc(get_default_config, DefaultsOf(n), <<>>) @@ h
        has == guild_id_str \in DOMAIN h[raw_ref].c
        saved_settings == h[raw_ref].c[guild_id_str]
    IN  IF guild_id \in DOMAIN cache
        THEN [ok |-> TRUE, hit |-> TRUE, at |-> cache[guild_id], heap |-> h, cache |-> cache]
        ELSE IF has /\ ~IsRefTo(h, saved_settings, "dict")
        THEN [ok |-> FALSE, hit |-> FALSE, at |-> final_config, heap |-> h1, cache |-> cache]
        ELSE [ok |-> TRUE, hit |-> FALSE, at |-> final_config,
              heap |-> IF has THEN recursive_update_ref(h1, final_config, saved_settings.c)
                       ELSE h1,
              cache |-> (guild_id :> final_config) @@ cache]

get_guild_config_ref(guild_id) ==
    LET r == get_in(heap, cache_refs, guild_id, nobjs + 1)
    IN  /\ r.hit \/ nobjs < MaxObjects
        /\ nobjs' = IF r.hit THEN nobjs ELSE nobjs + 1
        /\ heap' = r.heap
        /\ cache_refs' = r.cache
        /\ lastRef' = [op |-> "get", g |-> guild_id, at |-> r.at, ok |-> r.ok, hit |-> r.hit]
        /\ UNCHANGED <<raw_ref, nwrites>>

EmptyObject == [t |-> "dict", c |-> <<>>]

\* the loop of set_guild_config over key_path[:-1] from the object at cur:
\* setdefault puts a new dict under a missing key, then the isinstance test
RECURSIVE WalkRef(_, _, _, _, _)
WalkRef(h, cur, keys, done, n) ==
    IF keys = <<>> THEN [ok |-> TRUE, heap |-> h, level |-> cur]
    ELSE LET key == Head(keys)
             new == <<n, <<"setdefault">> \o done \o <<key>>>>
             h1 == IF key \in DOMAIN h[cur].c THEN h
                   ELSE [(new :> EmptyObject) @@ h EXCEPT ![cur].c = (key :> Ref(new)) @@ @]
             nested == h1[cur].c[key]
         IN  IF ~IsRefTo(h1, nested, "dict")
             THEN [ok |-> FALSE, heap |-> h1, level |-> cur]
             ELSE WalkRef(h1, nested.c, Tail(keys), done \o <<key>>, n)

\* set_guild_config(guild_id, key_path, value), value being an object of the caller
set_guild_config_ref(guild_id, key_path, value) ==
    LET n == nobjs + 1
        guild_id_str == ToString(guild_id)
        new == <<n, <<"guild">>>>
        h0 == IF guild_id_str \in DOMAIN heap[raw_ref].c THEN heap
              ELSE [(new :> EmptyObject) @@ heap
                        EXCEPT ![raw_ref].c = (guild_id_str :> Ref(new)) @@ @]
        current_level == h0[raw_ref].c[guild_id_str]
        walk == WalkRef(h0, current_level.c, SubSeq(key_path, 1, Len(key_path) - 1), <<>>, n)
        cell == IF IsContainer(value) THEN Ref(<<n, <<"value">>>>) ELSE value
        h2 == IF IsContainer(value) THEN Alloc(value, n, <<"value">>) @@ walk.heap
              ELSE walk.heap
        rec(ok) == [op |-> "set", g |-> guild_id, at |-> raw_ref, ok |-> ok, hit |-> FALSE]
    IN  /\ nobjs < MaxObjects
        /\ nobjs' = n
        /\ IF ~IsRefTo(h0, current_level, "dict")
           THEN /\ heap' = h0
                /\ lastRef' = rec(FALSE)
                /\ UNCHANGED cache_refs
           ELSE IF ~walk.ok
           THEN /\ heap' = walk.heap
                /\ lastRef' = rec(FALSE)
                /\ UNCHANGED cache_refs
           ELSE /\ heap' = [h2 EXCEPT ![walk.level].c = (key_path[Len(key_path)] :> cell) @@ @]
                /\ lastRef' = rec(TRUE)
                /\ cache_refs' = Evict(cache_refs, guild_id)
        /\ UNCHANGED <<raw_ref, nwrites>>

\* self.config_cache.clear() of a save_config that succeeded
save_config_ref ==
    /\ cache_refs # <<>>
    /\ cache_refs' = <<>>
    /\ lastRef' = [NoRef EXCEPT !.op = "save"]
    /\ UNCHANGED <<heap, raw_ref, nobjs, nwrites>>

\* a caller writes into a dict or list of the tree get_guild_config(guild_id)
\* returned to it: it puts the guild id under the key "written"
write_into(guild_id, a) ==
    /\ nwrites < MaxWrites
    /\ nwrites' = nwrites + 1
    /\ heap' = [heap EXCEPT ![a].c = ("written" :> Num(guild_id)) @@ @]
    /\ lastRef' = [op |-> "write", g |-> guild_id, at |-> a, ok |-> TRUE, hit |-> FALSE]
    /\ UNCHANGED <<raw_ref, cache_refs, nobjs>>

LoadConfigRef == \E doc \in LoadedDocs : load_config_ref(doc)
GetGuildConfigRef == \E g \in Guilds : get_guild_config_ref(g)
SetGuildConfigRef == \E g \in Guilds, setting \in ObjectSettings :
                        set_guild_config_ref(g, setting[1], setting[2])
SaveConfigRef == save_config_ref
WriteInto == \E g \in DOMAIN cache_refs : \E a \in Reach(heap, cache_refs[g]) : write_into(g, a)

\* ------------------------------------------------------- giveaways
\* The cog Giveaways: the rows of table giveaways, the loop check_giveaways and
\* a g-end command, each a task that stands at one of its awaits.

MaxClock == 3
MaxDraws == 2

MessageIds == {11, 12}
Durations == {1}

\* the history counts up to MaxDraws
Counted(n) == IF n < MaxDraws THEN n + 1 ELSE n

NoRow == [stored |-> FALSE, end_timestamp |-> 0, is_ended |-> 0]

\* a task that is not ending a giveaway: the loop sleeps, the command is done
Resting == [pc |-> "rest", g |-> 0, queue |-> <<>>, reply |-> ""]

GiveawaysInit ==
    /\ clock = 0
    /\ giveaways = [m \in MessageIds |-> NoRow]
    /\ tasks = [t \in {"check_giveaways", "g_end"} |-> Resting]
    /\ ended_log = [m \in MessageIds |-> [draws |-> 0, replies |-> 0]]

\* time passes
ClockTick ==
    /\ clock < MaxClock
    /\ clock' = clock + 1
    /\ UNCHANGED <<giveaways, tasks, ended_log>>

\* g-start: INSERT INTO giveaways (..., end_timestamp, ..., is_ended) VALUES (..., 0)
g_start(message_id, seconds) ==
    /\ ~giveaways[message_id].stored
    /\ giveaways' = [giveaways EXCEPT ![message_id] =
                        [stored |-> TRUE, end_timestamp |-> clock + seconds, is_ended |-> 0]]
    /\ UNCHANGED <<clock, tasks, ended_log>>

\* SELECT * FROM giveaways WHERE is_ended = 0 AND end_timestamp < now
ActiveRows ==
    {m \in MessageIds : giveaways[m].stored /\ giveaways[m].is_ended = 0}
DueRows ==
    {m \in MessageIds : /\ giveaways[m].stored
                        /\ giveaways[m].is_ended = 0
                        /\ giveaways[m].end_timestamp < clock}

\* check_giveaways: an iteration starts with the rows that are due, and calls
\* _end_giveaway for the first of them
check_giveaways ==
    LET rows == SetToSeq(DueRows)
    IN  /\ tasks["check_giveaways"].pc = "rest"
        /\ rows # <<>>
        /\ tasks' = [tasks EXCEPT !["check_giveaways"] =
                        [pc |-> "fetch_message", g |-> Head(rows), queue |-> Tail(rows),
                         reply |-> ""]]
        /\ UNCHANGED <<clock, giveaways, ended_log>>

\* g-end: fetchone, then "No active giveaway found" or _end_giveaway(g)
g_end(message_id) ==
    /\ tasks["g_end"].pc = "rest"
    /\ tasks' = [tasks EXCEPT !["g_end"] =
                    IF ~giveaways[message_id].stored \/ giveaways[message_id].is_ended = 1
                    THEN [Resting EXCEPT !.reply = "No active giveaway found", !.g = message_id]
                    ELSE [pc |-> "fetch_message", g |-> message_id, queue |-> <<>>,
                          reply |-> ""]]
    /\ UNCHANGED <<clock, giveaways, ended_log>>

\* an exception leaves _end_giveaway and its caller: the command fails, the
\* iteration of the loop is over and the loop comes to its next iteration
Raised(t) == [Resting EXCEPT !.reply = "error"]

\* _end_giveaway returns to its caller: the loop goes on to the next row of
\* its iteration, the command answers
BackInCaller(t) ==
    IF t = "g_end" THEN [Resting EXCEPT !.reply = "Giveaway ended early"]
    ELSE IF tasks[t].queue = <<>> THEN Resting
    ELSE [pc |-> "fetch_message", g |-> Head(tasks[t].queue),
          queue |-> Tail(tasks[t].queue), reply |-> ""]

\* self.bot.get_channel and await channel.fetch_message: without a channel, or
\* on discord.NotFound, the row is updated and nothing else is done
fetch_message(t, outcome) ==
    /\ tasks[t].pc = "fetch_message"
    /\ tasks' = [tasks EXCEPT ![t] =
                    IF outcome \in {"no channel", "NotFound"} THEN [@ EXCEPT !.pc = "update_only"]
                    ELSE IF outcome = "ok" THEN [@ EXCEPT !.pc = "draw"]
                    ELSE Raised(t)]
    /\ UNCHANGED <<clock, giveaways, ended_log>>

\* the entrants are fetched, random.sample draws the winners, await message.edit
draw_and_edit(t, outcome) ==
    /\ tasks[t].pc = "draw"
    /\ ended_log' = [ended_log EXCEPT ![tasks[t].g].draws = Counted(@)]
    /\ tasks' = [tasks EXCEPT ![t] = IF outcome = "ok" THEN [@ EXCEPT !.pc = "reply"]
                                     ELSE Raised(t)]
    /\ UNCHANGED <<clock, giveaways>>

\* await message.reply: the winners, or that no one entered, are announced
reply(t, outcome) ==
    /\ tasks[t].pc = "reply"
    /\ ended_log' = IF outcome = "ok"
                    THEN [ended_log EXCEPT ![tasks[t].g].replies = Counted(@)]
                    ELSE ended_log
    /\ tasks' = [tasks EXCEPT ![t] = IF outcome = "ok" THEN [@ EXCEPT !.pc = "update"]
                                     ELSE Raised(t)]
    /\ UNCHANGED <<clock, giveaways>>

\* UPDATE giveaways SET is_ended = 1 WHERE message_id = ?
update_is_ended(t) ==
    /\ tasks[t].pc \in {"update", "update_only"}
    /\ giveaways' = [giveaways EXCEPT ![tasks[t].g].is_ended = 1]
    /\ tasks' = [tasks EXCEPT ![t] = BackInCaller(t)]
    /\ UNCHANGED <<clock, ended_log>>

Enders == {"check_giveaways", "g_end"}

GStart == \E m \in MessageIds, d \in Durations : g_start(m, d)
GEnd == \E m \in MessageIds : g_end(m)
FetchMessage(t) == \E outcome \in {"ok", "no channel", "NotFound", "Forbidden"} : fetch_message(t, outcome)
DrawAndEdit(t) == \E outcome \in {"ok", "HTTPException"} : draw_and_edit(t, outcome)
Reply(t) == \E outcome \in {"ok", "HTTPException"} : reply(t, outcome)
EndGiveaway(t) == FetchMessage(t) \/ DrawAndEdit(t) \/ Reply(t) \/ update_is_ended(t)

\* ------------------------------------------------------- DatabaseManager
\* The writes of DatabaseManager on its one connection.  A write is numbered
\* when it starts.  A statement that succeeds adds its changes to the open
\* transaction of the connection (pending), commit makes the pending changes
\* permanent and rollback drops them.  A statement that fails changes nothing,
\* except that an executemany that fails at its second row has made the
\* changes of the first.

MaxDbWrites == 3

WriterTasks == {1, 2}
WriteOps == {"execute", "executemany", "remove_auto_response", "init"}

Idle == [op |-> "none", id |-> 0, pc |-> "idle"]

DatabaseInit ==
    /\ db_lock = 0
    /\ writers = [w \in WriterTasks |-> Idle]
    /\ pending = {}
    /\ committed = {}
    /\ ndbwrites = 0

Change(id, part) == [write |-> id, part |-> part]

\* a task calls execute, executemany, remove_auto_response or init; _get_db
\* has returned the connection
call_write(w, op) ==
    /\ writers[w].pc \in {"idle", "returned", "raised"}
    /\ ndbwrites < MaxDbWrites
    /\ ndbwrites' = ndbwrites + 1
    /\ writers' = [writers EXCEPT ![w] = [op |-> op, id |-> ndbwrites + 1, pc |-> "lock"]]
    /\ UNCHANGED <<db_lock, pending, committed>>

\* async with self._lock
acquire_lock(w) ==
    /\ writers[w].pc = "lock"
    /\ db_lock = 0
    /\ db_lock' = writers[w].id
    /\ writers' = [writers EXCEPT ![w].pc = "statement"]
    /\ UNCHANGED <<pending, committed, ndbwrites>>

\* leaving the `async with` block, by return or by an exception, frees the lock
Released(holder, raised) == 0

\* await db.execute / db.executemany; for init, BEGIN and the statements up to
\* the commit.  A failure raises out of the block, which init answers with
\* a rollback.
statement(w, outcome) ==
    LET me == writers[w]
        made == IF outcome = "ok"
                THEN IF me.op \in {"executemany", "init"}
                     THEN {Change(me.id, 1), Change(me.id, 2)}
                     ELSE {Change(me.id, 1)}
                ELSE IF outcome = "fails at second" THEN {Change(me.id, 1)}
                ELSE {}
    IN  /\ me.pc = "statement"
        /\ outcome = "fails at second" => me.op \in {"executemany", "init"}
        /\ pending' = pending \cup made
        /\ IF outcome = "ok"
           THEN /\ writers' = [writers EXCEPT ![w].pc = "commit"]
                /\ UNCHANGED db_lock
           ELSE IF me.op = "init"
           THEN /\ writers' = [writers EXCEPT ![w].pc = "rollback"]
                /\ UNCHANGED db_lock
           ELSE /\ writers' = [writers EXCEPT ![w].pc = "raised"]
                /\ db_lock' = Released(db_lock, TRUE)
        /\ UNCHANGED <<committed, ndbwrites>>

\* await db.commit()
commit(w, outcome) ==
    LET me == writers[w]
    IN  /\ me.pc = "commit"
        /\ IF outcome = "ok"
           THEN /\ committed' = committed \cup
                        {[write |-> c.write, part |-> c.part, by |-> me.id] : c \in pending}
                /\ pending' = {}
                /\ writers' = [writers EXCEPT ![w].pc = "returned"]
                /\ db_lock' = Released(db_lock, FALSE)
           ELSE IF me.op = "init"
           THEN /\ writers' = [writers EXCEPT ![w].pc = "rollback"]
                /\ UNCHANGED <<db_lock, pending, committed>>
           ELSE /\ writers' = [writers EXCEPT ![w].pc = "raised"]
                /\ db_lock' = Released(db_lock, TRUE)
                /\ UNCHANGED <<pending, committed>>
        /\ UNCHANGED ndbwrites

\* except aiosqlite.Error: await db.rollback(); raise
rollback(w) ==
    /\ writers[w].pc = "rollback"
    /\ pending' = {}
    /\ writers' = [writers EXCEPT ![w].pc = "raised"]
    /\ db_lock' = Released(db_lock, TRUE)
    /\ UNCHANGED <<committed, ndbwrites>>

CallWrite == \E w \in WriterTasks, op \in WriteOps : call_write(w, op)
AcquireLock == \E w \in WriterTasks : acquire_lock(w)
Statement == \E w \in WriterTasks, outcome \in {"ok", "fails", "fails at second"} :
                statement(w, outcome)
Commit == \E w \in WriterTasks, outcome \in {"ok", "fails"} : commit(w, outcome)
Rollback == \E w \in WriterTasks : rollback(w)

\* ------------------------------------------------------- on_ready
\* The on_ready events of one process: the first follows the initial connect,
\* each later one a reconnect.  An event is dispatched as a task of its own;
\* the tasks start in the order of their events and suspend at their awaits.

MaxReady == 5

ReadyEvents == 1..MaxReady

NotDispatched == [pc |-> "none", did |-> {}]

ReadyInit ==
    /\ run_once = FALSE
    /\ ready = [i \in ReadyEvents |-> NotDispatched]
    /\ status_sent = 0
    /\ presence_set = 0
    /\ reconnect_logs = 0

\* the gateway reports READY: the event is dispatched
dispatch_ready(i) ==
    /\ ready[i].pc = "none"
    /\ \A j \in ReadyEvents : j < i => ready[j].pc # "none"
    /\ ready' = [ready EXCEPT ![i].pc = "scheduled"]
    /\ UNCHANGED <<run_once, status_sent, presence_set, reconnect_logs>>

\* self._run_once_on_ready = True, before the first await of the handler
flag_left(flag) == flag
flag_at_entry(flag) == TRUE

\* on_ready up to its first await: the first-ready branch sets the flag and
\* awaits send_status_message, the other branch logs and returns
on_ready(i) ==
    /\ ready[i].pc = "scheduled"
    /\ \A j \in ReadyEvents : j < i => ready[j].pc \notin {"none", "scheduled"}
    /\ IF ~run_once
       THEN /\ run_once' = flag_at_entry(run_once)
            /\ ready' = [ready EXCEPT ![i].pc = "send_status_message"]
            /\ UNCHANGED reconnect_logs
       ELSE /\ reconnect_logs' = reconnect_logs + 1
            /\ ready' = [ready EXCEPT ![i] = [pc |-> "returned", did |-> {"log"}]]
            /\ UNCHANGED run_once
    /\ UNCHANGED <<status_sent, presence_set>>

\* await self.send_status_message(...): the embed is sent, or the bot is not
\* ready, the channel is no text channel or the send failed, which is logged
send_status_message(i, outcome) ==
    /\ ready[i].pc = "send_status_message"
    /\ status_sent' = IF outcome = "sent" THEN status_sent + 1 ELSE status_sent
    /\ ready' = [ready EXCEPT ![i] =
                    [pc |-> "change_presence",
                     did |-> IF outcome = "sent" THEN @.did \cup {"status"} ELSE @.did]]
    /\ UNCHANGED <<run_once, presence_set, reconnect_logs>>

\* await self.change_presence(...): an exception of it leaves the handler
change_presence(i, outcome) ==
    /\ ready[i].pc = "change_presence"
    /\ presence_set' = IF outcome = "ok" THEN presence_set + 1 ELSE presence_set
    /\ ready' = [ready EXCEPT ![i] =
                    IF outcome = "ok" THEN [pc |-> "returned", did |-> @.did \cup {"presence"}]
                    ELSE [pc |-> "raised", did |-> @.did]]
    /\ UNCHANGED <<run_once, status_sent, reconnect_logs>>

DispatchReady == \E i \in ReadyEvents : dispatch_ready(i)
OnReady == \E i \in ReadyEvents : on_ready(i)
SendStatusMessage == \E i \in ReadyEvents, outcome \in {"sent", "not sent"} :
                        send_status_message(i, outcome)
ChangePresence == \E i \in ReadyEvents, outcome \in {"ok", "raises"} :
                        change_presence(i, outcome)

\* ------------------------------------------------------- PaginatedHelp
\* The view CommandSelect.callback puts on the help message for the category
\* chosen, and the presses of its Previous and Next buttons.

MaxCommands == 21

\* per_page: int = 10
per_page == 10

CommandCounts == 0..MaxCommands

NoView == [open |-> FALSE, len |-> 0, current_page |-> 0, total_pages |-> 0]

HelpInit ==
    /\ view = NoView
    /\ presses = <<>>

\* self.total_pages = (len(commands_list) - 1) // per_page + 1
TotalPages(len, pp) == (len - 1) \div pp + 1

\* PaginatedHelp(bot, cog_name, commands_list, cogs), len being len(commands_list)
PaginatedHelp(len) ==
    [open |-> TRUE, len |-> len, current_page |-> 0,
     total_pages |-> TotalPages(len, per_page)]

\* CommandSelect.callback: a category is chosen and its view replaces the message
select_callback(len) ==
    /\ view' = PaginatedHelp(len)
    /\ presses' = <<>>

\* the last two presses are remembered
Pressed(button, raised) ==
    LET p == [button |-> button, from |-> view.current_page, raised |-> raised]
    IN  IF presses = <<>> THEN <<p>> ELSE <<presses[Len(presses)], p>>

\* self.current_page = (self.current_page + step) % self.total_pages, which
\* raises ZeroDivisionError when total_pages is 0
turn_page(button, step) ==
    /\ view.open
    /\ IF view.total_pages = 0
       THEN /\ presses' = Pressed(button, "ZeroDivisionError")
            /\ UNCHANGED view
       ELSE /\ presses' = Pressed(button, "")
            /\ view' = [view EXCEPT !.current_page = (@ + step) % view.total_pages]

prev_page == turn_page("prev", -1)
next_page == turn_page("next", 1)

SelectCallback == \E len \in CommandCounts : select_callback(len)

\* ------------------------------------------------------- the connection
\* DatabaseManager._get_db and close().  Connections are numbered as
\* aiosqlite.connect opens them.  Every operation of the manager starts with
\* `db = await self._get_db()`; a task that has its connection stands at
\* "has_db" and holds what _get_db returned in db.  overlap tells that a
\* close() was under way at some time during the call.

MaxGets == 4
MaxCloses == 2

GetterTasks == {1, 2, 3}

NoGet == [pc |-> "idle", db |-> 0, overlap |-> FALSE, open |-> FALSE]

ConnectionInit ==
    /\ _db = 0
    /\ nconns = 0
    /\ closed = {}
    /\ getters = [t \in GetterTasks |-> NoGet]
    /\ closer = [pc |-> "idle", db |-> 0]
    /\ ngets = 0
    /\ ncloses = 0

\* getattr(self._db, '_running', False): a connection runs until it is closed
Running(c) == c \notin closed

\* `async with self._lock` is entered when the lock is free
LockIgnored(lock) == TRUE
LockFree(lock) == lock = 0

\* an operation calls _get_db and comes to `async with self._lock`
call_get_db(t) ==
    /\ getters[t].pc \in {"idle", "has_db", "raised"}
    /\ ngets < MaxGets
    /\ ngets' = ngets + 1
    /\ getters' = [getters EXCEPT ![t] =
                      [pc |-> "lock", db |-> 0, overlap |-> closer.pc # "idle", open |-> FALSE]]
    /\ UNCHANGED <<_db, nconns, closed, closer, ncloses, db_lock>>

\* what `return self._db` hands to the caller
Got(t, db) == [pc |-> "has_db", db |-> db, overlap |-> getters[t].overlap,
               open |-> db # 0 /\ Running(db)]

\* the lock is taken: with no connection, or one that does not run, the task
\* awaits aiosqlite.connect; else it leaves the block and returns self._db
enter_lock(t) ==
    /\ getters[t].pc = "lock"
    /\ LockFree(db_lock)
    /\ IF _db = 0 \/ ~Running(_db)
       THEN /\ db_lock' = t
            /\ getters' = [getters EXCEPT ![t].pc = "connect"]
       ELSE /\ db_lock' = 0
            /\ getters' = [getters EXCEPT ![t] = Got(t, _db)]
    /\ UNCHANGED <<_db, nconns, closed, closer, ngets, ncloses>>

\* self._db = await aiosqlite.connect(self._db_path), then the task awaits
\* the PRAGMA; a connect that fails raises out of the block
connect(t, outcome) ==
    /\ getters[t].pc = "connect"
    /\ IF outcome = "ok"
       THEN /\ nconns' = nconns + 1
            /\ _db' = nconns + 1
            /\ getters' = [getters EXCEPT ![t].pc = "pragma"]
            /\ UNCHANGED db_lock
       ELSE /\ getters' = [getters EXCEPT ![t].pc = "raised"]
            /\ db_lock' = 0
            /\ UNCHANGED <<_db, nconns>>
    /\ UNCHANGED <<closed, closer, ngets, ncloses>>

\* await self._db.execute("PRAGMA journal_mode=WAL;"), the end of the block
\* and `return self._db`
pragma(t, outcome) ==
    /\ getters[t].pc = "pragma"
    /\ db_lock' = 0
    /\ getters' = [getters EXCEPT ![t] =
                      IF outcome = "ok" THEN Got(t, _db) ELSE [@ EXCEPT !.pc = "raised"]]
    /\ UNCHANGED <<_db, nconns, closed, closer, ngets, ncloses>>

InCall(t) == getters[t].pc \in {"lock", "connect", "pragma"}

\* close(): `if self._db:` and `await self._db.close()`
close_start ==
    /\ closer.pc = "idle"
    /\ ncloses < MaxCloses
    /\ ncloses' = ncloses + 1
    /\ IF _db # 0
       THEN /\ closer' = [pc |-> "closing", db |-> _db]
            /\ getters' = [t \in GetterTasks |->
                              IF InCall(t) THEN [getters[t] EXCEPT !.overlap = TRUE]
                              ELSE getters[t]]
       ELSE UNCHANGED <<closer, getters>>
    /\ UNCHANGED <<_db, nconns, closed, ngets, db_lock>>

\* the connection is closed and self._db = None
close_finish ==
    /\ closer.pc = "closing"
    /\ closed' = closed \cup {closer.db}
    /\ _db' = 0
    /\ closer' = [pc |-> "idle", db |-> 0]
    /\ UNCHANGED <<nconns, getters, ngets, ncloses, db_lock>>

CallGetDb == \E t \in GetterTasks : call_get_db(t)
EnterLock == \E t \in GetterTasks : enter_lock(t)
Connect == \E t \in GetterTasks, outcome \in {"ok", "fails"} : connect(t, outcome)
Pragma == \E t \in GetterTasks, outcome \in {"ok", "fails"} : pragma(t, outcome)

\* ------------------------------------------------------- auto responses
\* add_auto_response and remove_auto_response on table auto_responses as init
\* creates it.  The lock of the manager makes the statement and the commit of
\* a call one step among the writes.

MaxResponseCalls == 3

Triggers == {"hi", "Hi"}
Responses == {"hello", "bye"}

\* CHECK(match_type IN ('exact', 'contains', 'starts_with', 'ends_with', 'regex'))
MatchTypesAllowed == {"exact", "contains", "starts_with", "ends_with", "regex"}

\* the match_type values callers pass
MatchTypes == {"exact", "regex", "fuzzy"}

NoResponseCall ==
    [op |-> "none", guild_id |-> 0, trigger |-> "", response |-> "", match_type |-> "",
     ret |-> "none", before |-> {}]

ResponsesInit ==
    /\ auto_responses = {}
    /\ last_response_id = 0
    /\ response_call = NoResponseCall
    /\ nresponse_calls = 0

\* the rows with the guild_id and trigger given; guild_id is stored as str(guild_id)
RowsOf(rows, guild_id, trigger) ==
    {r \in rows : r.guild_id = ToString(guild_id) /\ r.trigger = trigger}

\* UNIQUE (guild_id, trigger)
UniqueFails(rows, guild_id, trigger) == RowsOf(rows, guild_id, trigger) # {}

\* the CHECK constraints of the table on the values of an INSERT
CheckFails(match_type) == match_type \notin MatchTypesAllowed

\* add_auto_response: the INSERT, which raises aiosqlite.IntegrityError when a
\* constraint of the table fails; that error is answered with False, any other
\* error of the statement or of the commit is raised to the caller
add_auto_response(guild_id, trigger, response, match_type, outcome) ==
    LET integrity == UniqueFails(auto_responses, guild_id, trigger) \/ CheckFails(match_type)
        row == [response_id |-> last_response_id + 1, guild_id |-> ToString(guild_id),
                trigger |-> trigger, response |-> response, match_type |-> match_type]
        stored == outcome = "ok" /\ ~integrity
    IN  /\ auto_responses' = IF stored THEN auto_responses \cup {row} ELSE auto_responses
        /\ last_response_id' = IF stored THEN last_response_id + 1 ELSE last_response_id
        /\ response_call' =
              [op |-> "add", guild_id |-> guild_id, trigger |-> trigger,
               response |-> response, match_type |-> match_type,
               ret |-> IF outcome # "ok" THEN "raised"
                       ELSE IF integrity THEN "False" ELSE "True",
               before |-> auto_responses]

\* remove_auto_response: the DELETE, the commit and `return cursor.rowcount > 0`
remove_auto_response(guild_id, trigger, outcome) ==
    LET gone == RowsOf(auto_responses, guild_id, trigger)
    IN  /\ auto_responses' = IF outcome = "ok" THEN auto_responses \ gone ELSE auto_responses
        /\ UNCHANGED last_response_id
        /\ response_call' =
              [op |-> "remove", guild_id |-> guild_id, trigger |-> trigger,
               response |-> "", match_type |-> "",
               ret |-> IF outcome # "ok" THEN "raised"
                       ELSE IF Cardinality(gone) > 0 THEN "True" ELSE "False",
               before |-> auto_responses]

AddAutoResponse ==
    /\ nresponse_calls < MaxResponseCalls
    /\ nresponse_calls' = nresponse_calls + 1
    /\ \E g \in Guilds, t \in Triggers, r \in Responses, m \in MatchTypes,
          outcome \in {"ok", "OperationalError"} : add_auto_response(g, t, r, m, outcome)

RemoveAutoResponse ==
    /\ nresponse_calls < MaxResponseCalls
    /\ nresponse_calls' = nresponse_calls + 1
    /\ \E g \in Guilds, t \in Triggers, outcome \in {"ok", "OperationalError"} :
          remove_auto_response(g, t, outcome)

\* ------------------------------------------------------- giveaway entrants
\* g-start with its awaits, the Join button of GiveawayJoinView, g-reroll, and
\* the tables giveaways and giveaway_entrants of the database file.  init
\* creates table giveaways unless the file has one already.

MaxPosts == 1
MaxPresses == 2

\* the members who press: 1 has role 7, 2 has no role, 3 is a bot with role 7
Members == {1, 2, 3}
IsBotUser(u) == u = 3
RolesOf(u) == IF u = 2 THEN {} ELSE {7}

\* required_role.id if required_role else None, None being 0
RequiredRoles == {0, 7}

JoinTasks == {1, 2}

\* CREATE TABLE IF NOT EXISTS giveaways (...)
GiveawaysColumns ==
    {"message_id", "guild_id", "channel_id", "prize", "end_timestamp", "winner_count",
     "is_ended"}

\* INSERT INTO giveaways (message_id, ..., winner_count, required_role, is_ended)
InsertColumns == GiveawaysColumns \cup {"required_role"}

NotPosted == [posted |-> FALSE, button |-> FALSE, required_role |-> 0]
NoJoin == [pc |-> "idle", m |-> 0, user |-> 0]
NoReroll == [m |-> 0, reply |-> "", pool |-> {}]
NotEnded == [ended |-> FALSE, by |-> "", clock |-> 0, entrants |-> {}]

EntrantsInit ==
    /\ giveaways_columns = {}
    /\ posted = [m \in MessageIds |-> NotPosted]
    /\ starter = [pc |-> "idle", m |-> 0, end_timestamp |-> 0]
    /\ joins = [j \in JoinTasks |-> NoJoin]
    /\ giveaway_entrants = [p \in MessageIds \X Members |-> 0]
    /\ reroll = NoReroll
    /\ at_end = [m \in MessageIds |-> NotEnded]
    /\ nposts = 0
    /\ npresses = 0

\* SELECT user_id FROM giveaway_entrants WHERE message_id = ?
EntrantsOf(m) == {u \in Members : giveaway_entrants[<<m, u>>] > 0}

\* init: the table is created as written, or the file has a table giveaways
\* already, here one with the column required_role, and it is left as it is
db_init(found) ==
    /\ giveaways_columns = {}
    /\ giveaways_columns' = IF found THEN InsertColumns ELSE GiveawaysColumns
    /\ UNCHANGED <<posted, starter, joins, giveaway_entrants, nposts, npresses>>

\* g-start up to the INSERT: end_time is taken, the message is posted and
\* its view is registered with bot.add_view
g_start_send(m, seconds, required_role) ==
    /\ giveaways_columns # {}
    /\ starter.pc # "insert"
    /\ nposts < MaxPosts
    /\ ~posted[m].posted
    /\ \A k \in MessageIds : k < m => posted[k].posted
    /\ nposts' = nposts + 1
    /\ posted' = [posted EXCEPT ![m] =
                    [posted |-> TRUE, button |-> TRUE, required_role |-> required_role]]
    /\ starter' = [pc |-> "insert", m |-> m, end_timestamp |-> clock + seconds]
    /\ UNCHANGED <<giveaways_columns, joins, giveaway_entrants, npresses>>

\* the INSERT of g-start: it raises when the table lacks a column it names
InsertFails(columns) == ~(InsertColumns \subseteq columns)

g_start_insert(outcome) ==
    /\ starter.pc = "insert"
    /\ IF outcome = "ok" /\ ~InsertFails(giveaways_columns)
       THEN /\ g_start(starter.m, starter.end_timestamp - clock)
            /\ starter' = [starter EXCEPT !.pc = "done"]
       ELSE /\ starter' = [starter EXCEPT !.pc = "raised"]
            /\ UNCHANGED giveaway_vars
    /\ UNCHANGED <<giveaways_columns, posted, joins, giveaway_entrants, nposts,
                   npresses>>

\* a member presses the Join button of a message that shows it: the custom_id
\* is that of the view and the handler awaits interaction.response.defer
press(j, m, u) ==
    /\ joins[j].pc \notin {"defer", "fetchone", "insert"}
    /\ npresses < MaxPresses
    /\ posted[m].button
    /\ npresses' = npresses + 1
    /\ joins' = [joins EXCEPT ![j] = [pc |-> "defer", m |-> m, user |-> u]]
    /\ UNCHANGED <<giveaways_columns, posted, starter, giveaway_entrants, nposts>>

\* the tests of interaction_check after the defer: a bot and a member without
\* the required role are answered and not entered.  A handler that has
\* answered is over; one that raised stays as it is until the next press.
deferred(j) ==
    LET me == joins[j]
        role == posted[me.m].required_role
    IN  /\ me.pc = "defer"
        /\ joins' = [joins EXCEPT ![j] =
                        IF IsBotUser(me.user) \/ (role # 0 /\ role \notin RolesOf(me.user))
                        THEN NoJoin
                        ELSE [@ EXCEPT !.pc = "fetchone"]]
        /\ UNCHANGED <<giveaways_columns, posted, starter, giveaway_entrants, nposts,
                       npresses>>

\* SELECT 1 FROM giveaway_entrants WHERE message_id = ? AND user_id = ?
fetchone_entrant(j) ==
    LET me == joins[j]
    IN  /\ me.pc = "fetchone"
        /\ joins' = [joins EXCEPT ![j] =
                        IF giveaway_entrants[<<me.m, me.user>>] > 0 THEN NoJoin
                        ELSE [@ EXCEPT !.pc = "insert"]]
        /\ UNCHANGED <<giveaways_columns, posted, starter, giveaway_entrants, nposts,
                       npresses>>

\* PRIMARY KEY (message_id, user_id)
PrimaryKeyAbsent(rows) == FALSE
PrimaryKeyFails(rows) == rows > 0

\* INSERT INTO giveaway_entrants (message_id, user_id) VALUES (?, ?)
insert_entrant(j) ==
    LET me == joins[j]
        key == <<me.m, me.user>>
    IN  /\ me.pc = "insert"
        /\ IF PrimaryKeyFails(giveaway_entrants[key])
           THEN /\ joins' = [joins EXCEPT ![j].pc = "IntegrityError"]
                /\ UNCHANGED giveaway_entrants
           ELSE /\ giveaway_entrants' = [giveaway_entrants EXCEPT ![key] = @ + 1]
                /\ joins' = [joins EXCEPT ![j] = NoJoin]
        /\ UNCHANGED <<giveaways_columns, posted, starter, nposts, npresses>>

\* g-reroll: refused for an unknown or still active giveaway, else new
\* winners are drawn from the entrants
g_reroll(m) ==
    /\ giveaways_columns # {}
    /\ reroll' = IF ~giveaways[m].stored \/ giveaways[m].is_ended = 0
                 THEN [m |-> m, reply |-> "This giveaway has not ended yet.", pool |-> {}]
                 ELSE IF EntrantsOf(m) = {}
                 THEN [m |-> m, reply |-> "No entrants", pool |-> {}]
                 ELSE [m |-> m, reply |-> "New winners", pool |-> EntrantsOf(m)]
    /\ UNCHANGED <<giveaways_columns, posted, starter, joins, giveaway_entrants, nposts,
                   npresses>>

\* await message.edit(embed=..., view=None) takes the button off the message
edit_removes_button(t, outcome) ==
    /\ draw_and_edit(t, outcome)
    /\ posted' = IF outcome = "ok" THEN [posted EXCEPT ![tasks[t].g].button = FALSE]
                 ELSE posted
    /\ UNCHANGED <<giveaways_columns, starter, joins, giveaway_entrants, nposts,
                   npresses>>

DbInit == \E found \in BOOLEAN : db_init(found)
GStartSend == \E m \in MessageIds, d \in Durations, r \in RequiredRoles : g_start_send(m, d, r)
GStartInsert == \E outcome \in {"ok", "OperationalError"} : g_start_insert(outcome)
Press == \E j \in JoinTasks, m \in MessageIds, u \in Members : press(j, m, u)
Deferred == \E j \in JoinTasks : deferred(j)
FetchoneEntrant == \E j \in JoinTasks : fetchone_entrant(j)
InsertEntrant == \E j \in JoinTasks : insert_entrant(j)
GReroll == \E m \in MessageIds : g_reroll(m)
EditRemovesButton == \E t \in Enders, outcome \in {"ok", "HTTPException"} :
                        edit_removes_button(t, outcome)

\* the task that makes the step of _end_giveaway which updates the row
Updater == CHOOSE t \in Enders : tasks'[t] # tasks[t]

\* history: when is_ended of a row becomes 1, who set it, when, and the entrants then
EndHistory ==
    at_end' = [m \in MessageIds |->
                IF giveaways[m].is_ended = 0 /\ giveaways'[m].is_ended = 1
                THEN [ended |-> TRUE, by |-> Updater, clock |-> clock,
                      entrants |-> EntrantsOf(m)]
                ELSE at_end[m]]

\* ------------------------------------------------------- specifications

Init ==
    /\ CooldownInit /\ ConfigInit /\ DispatchInit /\ ObjectsInit /\ GiveawaysInit
    /\ DatabaseInit /\ ReadyInit /\ HelpInit /\ ConnectionInit
    /\ ResponsesInit /\ EntrantsInit

\* the limiter alone: the configuration side stays as constructed, with no file
LimiterInit == Init /\ ~files[config_path].exists

CooldownNext ==
    /\ Tick \/ SetCommandCooldown \/ Acquire \/ Remaining
    /\ UNCHANGED config_vars
    /\ UNCHANGED other_vars

FixedPolicyNext ==
    /\ Tick \/ Registration \/ Acquire \/ Remaining
    /\ UNCHANGED config_vars
    /\ UNCHANGED other_vars

\* the history variables of the configuration side follow the step made
SavePcs == {"save_open", "save_write", "save_close"}

\* the step is a call of get_guild_config, recorded in lastOp'
IsGetCall == lastOp'.op = "get" /\ pc' = pc /\ nsets' = nsets /\ phase' = phase

Returned ==
    /\ recent' = IF ~IsGetCall THEN [g \in Guilds |-> NoneReturned]
                 ELSE IF ~lastOp'.ok THEN recent
                 ELSE [recent EXCEPT ![lastOp'.g] =
                        IF @.calls = 0
                        THEN [calls |-> 1, tree |-> get_result(lastOp'.g).tree]
                        ELSE [calls |-> 2, tree |-> @.tree]]

History ==
    /\ save_failed' = IF lastOp'.op = "restart" THEN FALSE
                      ELSE IF pc \in SavePcs /\ pc' = "idle" /\ lastOp' = Op("save", FALSE)
                      THEN TRUE
                      ELSE save_failed
    /\ seen' = IF pc' \notin SavePcs THEN {}
               ELSE IF pc \in SavePcs THEN seen \cup {config_cache_from_file'}
               ELSE {config_cache_from_file'}

ConfigNext ==
    /\ \/ LoadStart \/ LoadFinish
       \/ SaveStart \/ SaveOpen \/ SaveWrite \/ SaveReplace
       \/ GetGuildConfig \/ SetGuildConfig
       \/ Restart
    /\ UNCHANGED phase
    /\ History
    /\ UNCHANGED cooldown_vars
    /\ UNCHANGED other_vars

\* tasks write to the database
DatabaseNext ==
    /\ CallWrite \/ AcquireLock \/ Statement \/ Commit \/ Rollback
    /\ UNCHANGED <<cooldown_vars, config_vars, reads_vars, dispatch_vars, objects_vars,
                   giveaway_vars, rest_vars>>

\* giveaways are started, time passes, the loop and the g-end command end them
not_giveaway_vars == <<cooldown_vars, config_vars, reads_vars, dispatch_vars, objects_vars,
                       database_vars, rest_vars>>

GiveawaysNext ==
    /\ \/ ClockTick \/ GStart \/ check_giveaways \/ GEnd
       \/ \E t \in Enders : EndGiveaway(t)
    /\ UNCHANGED not_giveaway_vars

\* the configuration as objects: it is loaded, read, set and saved, and callers
\* write into the trees they were given
ObjectsNext ==
    /\ LoadConfigRef \/ GetGuildConfigRef \/ SetGuildConfigRef \/ SaveConfigRef \/ WriteInto
    /\ UNCHANGED <<cooldown_vars, config_vars, reads_vars, dispatch_vars, giveaway_vars,
                   database_vars, rest_vars>>

\* the same steps, with the trees that get_guild_config returned kept in recent
ReadsNext ==
    /\ \/ LoadStart \/ LoadFinish
       \/ SaveStart \/ SaveOpen \/ SaveWrite \/ SaveReplace
       \/ GetGuildConfig \/ SetGuildConfig
       \/ Restart
    /\ UNCHANGED phase
    /\ History
    /\ Returned
    /\ UNCHANGED cooldown_vars
    /\ UNCHANGED dispatch_vars
    /\ UNCHANGED objects_vars
    /\ UNCHANGED giveaway_vars
    /\ UNCHANGED database_vars
    /\ UNCHANGED rest_vars

\* close(): the auto-save loop is cancelled, which ends a save_config it is
\* running as a crash of that task would, and the final save_config takes the lock
Close ==
    /\ phase = "running"
    /\ files' \in CrashOutcomes
    /\ config_lock' = TRUE
    /\ pc' = "save_open"
    /\ save_text' = <<>>
    /\ snapshot' = None
    /\ phase' = "saving"
    /\ UNCHANGED <<config_cache, config_cache_from_file, lastOp, saved, nsets, nsaves,
                   fresh>>

\* close() has closed the session, the database and the connection
CloseEnd ==
    /\ phase \in {"flushed", "unflushed"}
    /\ phase' = IF phase = "flushed" THEN "closed" ELSE "closed_unsaved"
    /\ UNCHANGED <<config_cache, config_cache_from_file, config_lock, pc, save_text,
                   snapshot, files, lastOp, saved, nsets, nsaves, fresh>>

\* the life of the bot: setup_hook loads the configuration; while the bot runs
\* the handlers read and set it and auto_save_config saves it; close() makes
\* the final save, during and after which handlers still run
LifeNext ==
    /\ \/ /\ phase = "starting"
          /\ LoadStart \/ LoadFinish
          /\ phase' = IF lastOp'.op = "load" THEN "running" ELSE "starting"
       \/ /\ phase = "running"
          /\ \/ SaveStart \/ SaveOpen \/ SaveWrite \/ SaveReplace
             \/ GetGuildConfig \/ SetGuildConfig
          /\ phase' = phase
       \/ Close
       \/ /\ phase = "saving"
          /\ \/ SaveOpen \/ SaveWrite \/ SaveReplace
             \/ GetGuildConfig \/ SetGuildConfig
          /\ phase' = IF pc' # "idle" THEN "saving"
                      ELSE IF lastOp' = Op("save", TRUE) THEN "flushed"
                      ELSE "unflushed"
       \/ /\ phase \in {"flushed", "unflushed"}
          /\ GetGuildConfig \/ SetGuildConfig
          /\ phase' = phase
       \/ CloseEnd
    /\ History
    /\ UNCHANGED cooldown_vars
    /\ UNCHANGED other_vars

\* commands are dispatched while time passes and guild settings are changed;
\* the program registers no policy of its own, so the global one applies
DispatchNext ==
    \/ /\ \/ Tick /\ UNCHANGED dispatch_vars
          \/ OnMessage \/ OnInteraction \/ _app_cmd_cooldown \/ _global_before_invoke
       /\ UNCHANGED config_vars
       /\ UNCHANGED reads_vars
       /\ UNCHANGED objects_vars
       /\ UNCHANGED giveaway_vars
       /\ UNCHANGED database_vars
       /\ UNCHANGED rest_vars
    \/ /\ SetGuildConfig
       /\ UNCHANGED phase
       /\ History
       /\ UNCHANGED cooldown_vars
       /\ UNCHANGED dispatch_vars
       /\ UNCHANGED reads_vars
       /\ UNCHANGED objects_vars
       /\ UNCHANGED giveaway_vars
       /\ UNCHANGED database_vars
       /\ UNCHANGED rest_vars

SpecCooldown == LimiterInit /\ [][CooldownNext]_vars

SpecFixedPolicy == LimiterInit /\ [][FixedPolicyNext]_vars

SpecConfig == Init /\ [][ConfigNext]_vars

SpecLife == Init /\ [][LifeNext]_vars

SpecReads == Init /\ [][ReadsNext]_vars

SpecObjects == LimiterInit /\ [][ObjectsNext]_vars

SpecGiveaways == LimiterInit /\ [][GiveawaysNext]_vars

SpecDatabase == LimiterInit /\ [][DatabaseNext]_vars

\* the loop check_giveaways runs while the bot runs: its iterations start and
\* each of its awaits comes back
SpecGiveawaysLoop ==
    /\ LimiterInit
    /\ [][GiveawaysNext]_vars
    /\ WF_giveaway_vars(ClockTick)
    /\ WF_giveaway_vars(check_giveaways)
    /\ WF_giveaway_vars(EndGiveaway("check_giveaways"))

SpecDispatch == LimiterInit /\ [][DispatchNext]_vars

\* on_ready events are dispatched and handled
ReadyNext ==
    /\ DispatchReady \/ OnReady \/ SendStatusMessage \/ ChangePresence
    /\ UNCHANGED <<cooldown_vars, config_vars, reads_vars, dispatch_vars, objects_vars,
                   giveaway_vars, database_vars, help_vars, connection_vars,
                   responses_vars, entrants_vars>>

\* the help menu is used
HelpNext ==
    /\ SelectCallback \/ prev_page \/ next_page
    /\ UNCHANGED <<cooldown_vars, config_vars, reads_vars, dispatch_vars, objects_vars,
                   giveaway_vars, database_vars, ready_vars, connection_vars,
                   responses_vars, entrants_vars>>

\* operations ask for the connection and close() is called
ConnectionNext ==
    /\ CallGetDb \/ EnterLock \/ Connect \/ Pragma \/ close_start \/ close_finish
    /\ UNCHANGED <<writers, pending, committed, ndbwrites>>
    /\ UNCHANGED <<cooldown_vars, config_vars, reads_vars, dispatch_vars, objects_vars,
                   giveaway_vars, ready_vars, help_vars, responses_vars, entrants_vars>>

SpecConnection == LimiterInit /\ [][ConnectionNext]_vars

\* auto responses are added and removed
ResponsesNext ==
    /\ AddAutoResponse \/ RemoveAutoResponse
    /\ UNCHANGED <<cooldown_vars, config_vars, reads_vars, dispatch_vars, objects_vars,
                   giveaway_vars, database_vars, ready_vars, help_vars, connection_vars,
                   entrants_vars>>

SpecResponses == LimiterInit /\ [][ResponsesNext]_vars

\* members press the Join button of the giveaway messages g-start posts
EntrantsNext ==
    /\ \/ /\ DbInit \/ GStartSend \/ Press \/ Deferred \/ FetchoneEntrant \/ InsertEntrant
          /\ UNCHANGED giveaway_vars
       \/ GStartInsert
    /\ UNCHANGED <<reroll, at_end>>
    /\ UNCHANGED <<cooldown_vars, config_vars, reads_vars, dispatch_vars, objects_vars,
                   database_vars, ready_vars, help_vars, connection_vars, responses_vars>>

\* the presses handled by the first of the tasks
PressOne == \E m \in MessageIds, u \in Members : press(1, m, u)
JoinOne == deferred(1) \/ fetchone_entrant(1) \/ insert_entrant(1)

\* giveaways from g-start to g-reroll: they are posted, joined, ended by the
\* loop or by g-end, and rerolled
LifecycleNext ==
    /\ \/ /\ DbInit
          /\ UNCHANGED reroll
          /\ UNCHANGED giveaway_vars
       \/ /\ ClockTick \/ check_giveaways \/ GEnd
             \/ \E t \in Enders : FetchMessage(t) \/ Reply(t) \/ update_is_ended(t)
          /\ giveaways_columns # {}
          /\ UNCHANGED <<giveaways_columns, posted, starter, joins, giveaway_entrants,
                         nposts, npresses>>
          /\ reroll' = NoReroll
       \/ EditRemovesButton /\ reroll' = NoReroll
       \/ GStartInsert /\ reroll' = NoReroll
       \/ /\ GStartSend \/ PressOne \/ JoinOne
          /\ reroll' = NoReroll
          /\ UNCHANGED giveaway_vars
       \/ GReroll /\ UNCHANGED giveaway_vars
    /\ EndHistory
    /\ UNCHANGED <<cooldown_vars, config_vars, reads_vars, dispatch_vars, objects_vars,
                   database_vars, ready_vars, help_vars, connection_vars, responses_vars>>

SpecLifecycle == LimiterInit /\ [][LifecycleNext]_vars

SpecEntrants == LimiterInit /\ [][EntrantsNext]_vars

SpecReady == LimiterInit /\ [][ReadyNext]_vars

SpecHelp == LimiterInit /\ [][HelpNext]_vars

\* ------------------------------------------------------- limiter properties

\* the admitted calls of the pair of lastCall that were made before lastCall
PriorAdmitted ==
    LET log == admitted[<<lastCall.user, Lower(lastCall.name)>>]
    IN  IF lastCall.ret = 0 THEN SubSeq(log, 1, Len(log) - 1) ELSE log

\* how many of the times of log lie within the last w seconds
InWindow(log, w) == Cardinality({i \in 1..Len(log) : log[i] > now - w})

\* C1: under a fixed policy (rate r, window w), an acquire made while fewer than r
\* admitted calls of the same user and command lie within the last w seconds
\* returns 0, and one made while r admitted calls lie within the last w seconds
\* is denied with a value d, 0 < d <= w.
C1_SlidingWindow ==
    lastCall.op = "acquire" =>
        LET n == InWindow(PriorAdmitted, lastCall.per)
        IN  /\ n < lastCall.rate => lastCall.ret = 0
            /\ n >= lastCall.rate => (0 < lastCall.ret /\ lastCall.ret <= lastCall.per)

\* the (r+1)-th call of a window was denied, for r = 2, after time has passed
C1_Witness ==
    /\ lastCall.op = "acquire"
    /\ lastCall.rate = 2
    /\ lastCall.ret > 0
    /\ InWindow(PriorAdmitted, lastCall.per) = 2
    /\ now > 0

\* C2: once at least `per` seconds have passed since the last admitted acquire of
\* a user and command, the next acquire of that pair returns 0 and is recorded,
\* whatever was admitted or denied before; exactly `per` seconds suffice.
C2_WindowExpires ==
    (/\ lastCall.op = "acquire"
     /\ PriorAdmitted # <<>>
     /\ now - PriorAdmitted[Len(PriorAdmitted)] >= lastCall.per)
    => /\ lastCall.ret = 0
       /\ Timestamps(lastCall.user, Lower(lastCall.name)) # <<>>
       /\ LET ts == Timestamps(lastCall.user, Lower(lastCall.name))
          IN  ts[Len(ts)] = now

\* an acquire exactly `per` seconds after the last admitted one, which was the
\* second admitted call of the pair
C2_Witness ==
    /\ lastCall.op = "acquire"
    /\ Len(PriorAdmitted) >= 2
    /\ now - PriorAdmitted[Len(PriorAdmitted)] = lastCall.per
    /\ lastCall.ret = 0

\* ------------------------------------------------------- configuration properties

\* key paths into a tree of nested dicts
RECURSIVE HasPath(_, _)
HasPath(tree, path) ==
    IF path = <<>> THEN TRUE
    ELSE /\ IsDict(tree)
         /\ Head(path) \in DOMAIN tree.c
         /\ HasPath(tree.c[Head(path)], Tail(path))

\* the override document that holds value at path and nothing else
RECURSIVE Single(_, _)
Single(path, value) ==
    IF Len(path) = 1 THEN Dict((path[1] :> value))
    ELSE Dict((path[1] :> Single(Tail(path), value)))

\* tree and dflt hold the same values at every path that neither lies under
\* path nor leads to it
RECURSIVE SameOutside(_, _, _)
SameOutside(tree, dflt, path) ==
    /\ IsDict(tree)
    /\ DOMAIN tree.c = DOMAIN dflt.c
    /\ \A k \in DOMAIN dflt.c \ {path[1]} : tree.c[k] = dflt.c[k]
    /\ Len(path) > 1 => SameOutside(tree.c[path[1]], dflt.c[path[1]], Tail(path))

\* the step is a call of set_guild_config, recorded in lastOp'
IsSetCall == nsets' = nsets + 1

\* C3: get_guild_config(g) returns the deep merge of g's overrides onto the
\* defaults: when a call has returned, the tree it returned, which is the one
\* held in the cache for g, is that merge of the override document.
C3_ReturnsMergeOfOverrides ==
    (lastOp.op = "get" /\ lastOp.ok /\ IsDict(config_cache_from_file)
        /\ IsDict(SavedSettings(lastOp.g)))
    => config_cache[lastOp.g] = Merged(SavedSettings(lastOp.g))

\* C7: for a guild whose prefix setting is a string, set_guild_config(g,
\* ["prefix", "x"], v) fails and leaves the override document unchanged, so
\* that the guild's prefix is still a string afterwards.
C7_PrefixPathRejected ==
    [][\A g \in Guilds :
        (/\ IsSetCall
         /\ lastOp'.g = g
         /\ lastOp'.p = <<"prefix", "x">>
         /\ get_result(g).ok
         /\ get_result(g).tree.c["prefix"].t = "str")
        => /\ ~lastOp'.ok
           /\ config_cache_from_file' = config_cache_from_file
           /\ get_result(g)'.tree.c["prefix"].t = "str"]_vars

\* C8: when load_config has returned, no effective config computed from the
\* override document it replaced is left in the cache: every tree in the cache
\* is the merge of the document that was loaded.
C8_ReloadInvalidates ==
    (lastOp.op = "load" /\ IsDict(config_cache_from_file))
    => \A g \in DOMAIN config_cache :
          /\ IsDict(SavedSettings(g))
          /\ config_cache[g] = Merged(SavedSettings(g))

\* C4 as stated: after set_guild_config(g, p, v) for a guild without overrides
\* and a path p of the default tree, get_guild_config(g) has v at p and the
\* default value at every other path.
C4_SetThenGetHasValue ==
    [][(/\ lastOp.op = "set" /\ lastOp.ok
        /\ SavedSettings(lastOp.g) = Single(lastOp.p, lastOp.v)
        /\ HasPath(get_default_config, lastOp.p)
        /\ lastOp'.op = "get" /\ lastOp'.ok /\ lastOp'.g = lastOp.g)
       => /\ HasPath(config_cache'[lastOp.g], lastOp.p)
          /\ GetPath(config_cache'[lastOp.g], lastOp.p) = lastOp.v
          /\ SameOutside(config_cache'[lastOp.g], get_default_config, lastOp.p)]_vars

\* C4, amended: after set_guild_config(g, p, v) for a guild without overrides
\* and a path p of the default tree, get_guild_config(g) has the default value
\* at every path outside p, and at p it has v, unless v and the default at p
\* are both mappings: then it has there the keys of both, the default's value
\* under a key v does not name, and v's value under a key where v's value and
\* the default's are not both mappings.
C4_SetThenGetMergesAtPath ==
    [][(/\ lastOp.op = "set" /\ lastOp.ok
        /\ SavedSettings(lastOp.g) = Single(lastOp.p, lastOp.v)
        /\ HasPath(get_default_config, lastOp.p)
        /\ lastOp'.op = "get" /\ lastOp'.ok /\ lastOp'.g = lastOp.g)
       => LET tree == config_cache'[lastOp.g]
              v == lastOp.v
              d == GetPath(get_default_config, lastOp.p)
          IN  /\ HasPath(tree, lastOp.p)
              /\ SameOutside(tree, get_default_config, lastOp.p)
              /\ LET at == GetPath(tree, lastOp.p)
                 IN  IF IsDict(v) /\ IsDict(d)
                     THEN /\ IsDict(at)
                          /\ DOMAIN at.c = DOMAIN d.c \cup DOMAIN v.c
                          /\ \A k \in DOMAIN d.c \ DOMAIN v.c : at.c[k] = d.c[k]
                          /\ \A k \in DOMAIN v.c :
                                ~(k \in DOMAIN d.c /\ IsDict(d.c[k]) /\ IsDict(v.c[k]))
                                => at.c[k] = v.c[k]
                     ELSE at = v]_vars

\* guild 42 had no overrides, leveling.xp_per_message_min was set to 50 and
\* get_guild_config(42) returned a tree that holds 50 there, not the default 15
C4_Witness ==
    /\ lastOp.op = "get" /\ lastOp.ok /\ lastOp.g = 42
    /\ SavedSettings(42) = Single(<<"leveling", "xp_per_message_min">>, Num(50))
    /\ GetPath(config_cache[42], <<"leveling", "xp_per_message_min">>) = Num(50)
    /\ GetPath(get_default_config, <<"leveling", "xp_per_message_min">>) = Num(15)
    /\ GetPath(config_cache[42], <<"leveling", "xp_per_message_max">>) = Num(25)

\* the overrides of guild_id, present or not
Entry(guild_id) ==
    IF IsDict(config_cache_from_file)
          /\ ToString(guild_id) \in DOMAIN config_cache_from_file.c
    THEN <<config_cache_from_file.c[ToString(guild_id)]>> ELSE <<>>

\* the cache entry of guild_id, present or not
Cached(guild_id) ==
    IF guild_id \in DOMAIN config_cache THEN <<config_cache[guild_id]>> ELSE <<>>

\* C5: set_guild_config(g, p, v) leaves the overrides, the cache entry and the
\* result of get_guild_config of every other guild h as they were.
C5_OtherGuildsUntouched ==
    [][IsSetCall =>
        \A h \in Guilds \ {lastOp'.g} :
            /\ Entry(h)' = Entry(h)
            /\ Cached(h)' = Cached(h)
            /\ get_result(h)' = get_result(h)]_vars

\* a set_guild_config for one guild succeeded while the other guild has
\* overrides of its own and a cached effective config
C5_Witness ==
    /\ lastOp.op = "set" /\ lastOp.ok
    /\ \E h \in Guilds \ {lastOp.g} :
          /\ h \in DOMAIN config_cache
          /\ Entry(h) # <<>>
          /\ config_cache[h] # get_default_config

\* some proper prefix of path leads to a value of tree that is no mapping
ScalarOnPath(tree, path) ==
    \E i \in 1..(Len(path) - 1) :
        /\ HasPath(tree, SubSeq(path, 1, i))
        /\ ~IsDict(GetPath(tree, SubSeq(path, 1, i)))

\* C6: when an intermediate segment of p holds a value that is no mapping in
\* g's overrides, set_guild_config(g, p, v) fails and leaves the override
\* document and the cache exactly as they were.
C6_ConflictChangesNothing ==
    [][\A g \in Guilds :
        (/\ IsSetCall
         /\ lastOp'.g = g
         /\ Entry(g) # <<>>
         /\ ScalarOnPath(Entry(g)[1], lastOp'.p))
        => /\ ~lastOp'.ok
           /\ config_cache_from_file' = config_cache_from_file
           /\ config_cache' = config_cache]_vars

\* a set_guild_config failed on a scalar below the first segment of its path,
\* while the guild's effective config was cached
C6_Witness ==
    /\ lastOp.op = "set" /\ ~lastOp.ok
    /\ Len(lastOp.p) = 3
    /\ Entry(lastOp.g) # <<>>
    /\ HasPath(Entry(lastOp.g)[1], <<lastOp.p[1]>>)
    /\ IsDict(GetPath(Entry(lastOp.g)[1], <<lastOp.p[1]>>))
    /\ ScalarOnPath(Entry(lastOp.g)[1], lastOp.p)
    /\ lastOp.g \in DOMAIN config_cache

\* C9: config.json never holds a partial file: its content changes only in the
\* replace step of save_config, where the temporary file holds the complete new
\* document and config.json takes exactly that content; a failed or interrupted
\* write, a failed replace and a crash leave config.json as it was.
C9_ReplacedWhole ==
    [][files'[config_path] # files[config_path]
       => /\ pc = "save_close"
          /\ temp_path # config_path
          /\ files[temp_path] = FileOf(save_text)
          /\ json_loads(save_text) =
                [ok |-> TRUE, val |-> Dict([guild_settings |-> snapshot])]
          /\ files'[config_path] = FileOf(save_text)
          /\ ~files'[temp_path].exists]_vars

\* a write of save_config broke off and left an unparsable temporary file,
\* while config.json holds a complete document
C9_Witness ==
    /\ lastOp = Op("save", FALSE)
    /\ files[temp_path].exists
    /\ ~json_loads(files[temp_path].text).ok
    /\ files[config_path].exists
    /\ json_loads(files[config_path].text).ok
    /\ config_cache_from_file # EmptyDict

\* C10: when load_config has read the file that a successful save_config put
\* in place, the override document is equal to the one that was saved.
C10_RoundTrip ==
    (lastOp = Op("load", TRUE) /\ saved.has) => config_cache_from_file = saved.doc

\* a process that made no set_guild_config has loaded a saved document in which
\* a guild holds a list with a number and a null under a nested key
C10_Witness ==
    /\ lastOp = Op("load", TRUE) /\ saved.has /\ fresh
    /\ config_cache_from_file = saved.doc
    /\ \E g \in Guilds :
          /\ HasPath(SavedSettings(g), <<"moderation", "allowed_roles">>)
          /\ GetPath(SavedSettings(g), <<"moderation", "allowed_roles">>)
                = List(<<Num(7), None>>)

\* ------------------------------------------------------- limiter properties, continued

\* the step is a call of acquire, recorded in lastCall'
IsAcquireCall == lastCall'.op = "acquire" /\ config' = config /\ now' = now

\* the times of log that lie within the last w seconds before time t
Within(log, t, w) == SelectSeq(log, LAMBDA x : t - w < x /\ x <= t)

\* C13: however the acquire calls of the users and commands interleave, for
\* each pair no more than `rate` admitted calls lie in any window of `per`
\* seconds, and the history of the pair holds, in their order, the admitted
\* times that are still inside the window: none was lost.
C13_AsIfOneAtATime ==
    \A u \in Users, k \in Keys :
        LET log == admitted[<<u, k>>]
            rate == get_config(k)[1]
            per == get_config(k)[2]
        IN  /\ \A i \in 1..Len(log) : Len(Within(log, log[i], per)) <= rate
            /\ \E m \in 1..(Len(log) + 1) :
                  Timestamps(u, k) = SubSeq(log, m, Len(log))
            /\ \A i \in 1..Len(log) :
                  log[i] > now - per =>
                      \E j \in 1..Len(Timestamps(u, k)) : Timestamps(u, k)[j] = log[i]

\* both users were admitted for the same command at the same instant, each from
\* a history of its own, and a further call at that instant was denied
C13_Witness ==
    /\ lastCall.op = "acquire" /\ lastCall.ret > 0
    /\ \A u \in Users :
          /\ Timestamps(u, Lower(lastCall.name)) # <<>>
          /\ Timestamps(u, Lower(lastCall.name))[Len(Timestamps(u, Lower(lastCall.name)))] = now
    /\ \E u \in Users : Timestamps(u, "daily") # <<>>

\* C17: acquire returns 0 exactly when it appends the current time to the
\* history of the pair; when it returns another value it appends nothing, and
\* the value is per - (now - oldest timestamp still inside the window), which
\* is positive.
C17_ZeroIffRecorded ==
    [][\A u \in Users, k \in Keys :
        (IsAcquireCall /\ lastCall'.user = u /\ Lower(lastCall'.name) = k)
        => LET inside == Within(Timestamps(u, k), now, lastCall'.per)
               ret == lastCall'.ret
           IN  /\ ret = 0 <=> Timestamps(u, k)' = Append(inside, now)
               /\ ret # 0 => /\ Timestamps(u, k)' = inside
                             /\ ret = lastCall'.per - (now - inside[1])
                             /\ ret > 0]_vars

\* a call was denied although the newest timestamp of the pair is the current
\* instant: the value returned counts from the oldest one, which is older
C17_Witness ==
    /\ lastCall.op = "acquire" /\ lastCall.ret > 0
    /\ LET ts == Timestamps(lastCall.user, Lower(lastCall.name))
       IN  /\ Len(ts) = 2
           /\ ts[1] < ts[2]
           /\ lastCall.ret = lastCall.per - (now - ts[1])

\* C18: remaining never advances the limiter: every acquire returns what it
\* returns in the run without the remaining calls.
C18_RemainingChangesNoResult ==
    lastCall.op = "acquire" => lastCall.ret = shadow.ret

\* what acquire and remaining would return now
acquire_ret(user_id, command_name) == acquire_in(data, user_id, command_name).ret
remaining_ret(user_id, command_name) == remaining_in(data, user_id, command_name).ret

\* C19: at every time and in every state of the limiter, remaining returns 0
\* exactly when acquire would be admitted, and otherwise the value acquire
\* would return.
C19_RemainingAgreesWithAcquire ==
    \A u \in Users, n \in CommandNames : remaining_ret(u, n) = acquire_ret(u, n)

\* remaining has returned a positive value for a command with a registered
\* rate other than the global one, and acquire would return the same
C19_Witness ==
    /\ lastCall.op = "remaining" /\ lastCall.ret > 0
    /\ lastCall.rate # config["global"].rate
    /\ acquire_ret(lastCall.user, lastCall.name) = lastCall.ret

\* C20: get_config, acquire and remaining use, for every spelling of a name,
\* the policy last registered for the name under any spelling, and the global
\* policy (1 per 5 s) for a name never registered; the histories are kept
\* under the lower-case name only.
C20_CaseInsensitivePolicy ==
    [][/\ \A n \in CommandNames : get_config(n)' = policy'[Lower(n)]
       /\ (lastCall'.op \in {"acquire", "remaining"} /\ config' = config /\ now' = now)
             => <<lastCall'.rate, lastCall'.per>> = policy[Lower(lastCall'.name)]
       /\ policy'["daily"] = <<1, 5>>
       /\ \A u \in DOMAIN data' : DOMAIN data'[u] \subseteq Keys]_vars

\* a policy was registered as "Ping"; a call as "Ping" was denied under it
\* because of the user's admitted call as "ping", while "daily" has the global
\* policy
C20_Witness ==
    /\ lastCall.op = "acquire" /\ lastCall.name = "Ping" /\ lastCall.ret > 0
    /\ "ping" \in DOMAIN config /\ "Ping" \notin DOMAIN config
    /\ <<lastCall.rate, lastCall.per>> = <<config["ping"].rate, config["ping"].per>>
    /\ lastCall.per # default_per
    /\ get_config("daily") = <<default_rate, default_per>>

\* ------------------------------------------------------- configuration properties, continued

\* the text is a well-formed configuration document: a JSON object whose
\* guild_settings value is a mapping
WellFormed(text) ==
    LET r == json_loads(text)
    IN  /\ r.ok
        /\ IsDict(r.val)
        /\ "guild_settings" \in DOMAIN r.val.c
        /\ IsDict(r.val.c["guild_settings"])

\* C11: when config.json is missing, cannot be read or is malformed,
\* load_config returns with the empty mapping as the override document.
C11_LoadFailureGivesEmpty ==
    (/\ lastOp.op = "load"
     /\ \/ ~lastOp.ok
        \/ ~files[config_path].exists
        \/ ~WellFormed(files[config_path].text))
    => config_cache_from_file = EmptyDict

\* the step ends a save_config in failure
IsFailedSave == pc \in SavePcs /\ pc' = "idle" /\ lastOp' = Op("save", FALSE)

\* C12: a save_config that fails at any step returns, with the lock released,
\* and leaves the override document, the cache and config.json as they were;
\* a later save_config serialises the override document as it is then, and
\* when it succeeds config.json holds that document.
C12_FailedSaveKeepsState ==
    [][/\ IsFailedSave
          => /\ config_cache_from_file' = config_cache_from_file
             /\ config_cache' = config_cache
             /\ files'[config_path] = files[config_path]
             /\ ~config_lock'
       /\ (save_failed /\ pc = "save_open" /\ pc' = "save_write")
          => snapshot' = config_cache_from_file
       /\ (save_failed /\ nsaves' = nsaves + 1)
          => json_loads(files'[config_path].text) =
                [ok |-> TRUE, val |-> Dict([guild_settings |-> snapshot])]]_vars

\* after a failed save_config a later one has succeeded and has written the
\* overrides of a guild, while an effective config was cached at the failure
C12_Witness ==
    /\ save_failed
    /\ lastOp = Op("save", TRUE)
    /\ saved.doc = config_cache_from_file
    /\ config_cache_from_file # EmptyDict
    /\ WellFormed(files[config_path].text)
    /\ json_loads(files[config_path].text).val.c["guild_settings"] = config_cache_from_file

\* C14: the document a successful save_config puts in place is the override
\* document as it stood at one instant during the save, whatever
\* set_guild_config calls were made while the save was running.
C14_SavedAtOneInstant ==
    [][nsaves' = nsaves + 1
       => LET written == json_loads(files'[config_path].text)
          IN  /\ written.ok
              /\ written.val.c["guild_settings"] \in seen]_vars

\* a set_guild_config was made while a save was writing; the save has put a
\* document in place that does not hold it
C14_Witness ==
    /\ lastOp = Op("save", TRUE)
    /\ nsets > 0
    /\ saved.doc # config_cache_from_file
    /\ IsDict(config_cache_from_file)
    /\ DOMAIN saved.doc.c # DOMAIN config_cache_from_file.c

\* C15: set_guild_config never changes the override document while a
\* load_config or save_config holds _config_lock.
C15_MutationUnderLock ==
    [][(IsSetCall /\ config_lock) => config_cache_from_file' = config_cache_from_file]_vars

\* C16: after a close() whose final save_config succeeded, config.json holds
\* the override document that is in memory.
C16_CloseLeavesFileCurrent ==
    phase = "closed" => files[config_path] = FileOf(json_dumps(full_config))

\* ------------------------------------------------------- limiter properties, third part

\* the step is a call of acquire or remaining, recorded in lastCall'
IsLimiterCall ==
    lastCall'.op \in {"acquire", "remaining"} /\ config' = config /\ now' = now

\* C21: an acquire or remaining call for a pair leaves the history of every
\* other pair as it was, and with it what acquire and remaining return for it.
C21_OtherPairsUntouched ==
    [][IsLimiterCall =>
        \A u \in Users, k \in Keys :
            <<u, k>> # <<lastCall'.user, Lower(lastCall'.name)>>
            => /\ Timestamps(u, k)' = Timestamps(u, k)
               /\ acquire_ret(u, k)' = acquire_ret(u, k)
               /\ remaining_ret(u, k)' = remaining_ret(u, k)]_vars

\* a user was admitted for one command while a call of the same user for the
\* other command and a call of the other user for the same command are denied
C21_Witness ==
    /\ lastCall.op = "acquire" /\ lastCall.ret = 0
    /\ \E n \in CommandNames :
          /\ Lower(n) # Lower(lastCall.name)
          /\ Timestamps(lastCall.user, Lower(n)) # <<>>
          /\ acquire_ret(lastCall.user, n) > 0
    /\ \E u \in Users \ {lastCall.user} : acquire_ret(u, lastCall.name) > 0

\* ------------------------------------------------------- dispatch properties

\* C22: the invocation of a command by a user who is no bot, by prefix or as a
\* slash command, calls acquire once before its body runs; the body runs only
\* if that call returned 0, a positive value ends the invocation with a
\* CommandOnCooldown carrying it, and the value is the one the limiter gives for
\* the user and command, whatever the guild settings are, which the call leaves
\* as they were.
C22_OneAcquirePerInvocation ==
    [][/\ ~inv'.bot =>
            /\ inv'.acquires <= 1
            /\ inv'.stage = "body" => (inv'.acquires = 1 /\ inv'.ret = 0)
            /\ inv'.stage = "CommandOnCooldown" =>
                    /\ inv'.acquires = 1
                    /\ inv'.ret > 0
                    /\ inv'.retry_after = inv'.ret
            /\ inv'.acquires = 1 => inv'.stage \in {"body", "before_invoke", "CommandOnCooldown"}
       /\ inv'.acquires = inv.acquires + 1 =>
            /\ inv'.ret = acquire_ret(inv.user, inv.name)
            /\ config_cache_from_file' = config_cache_from_file
            /\ config_cache' = config_cache]_vars

\* a prefix command was denied after time had passed and guild settings had
\* been changed
C22_Witness ==
    /\ inv.kind = "prefix" /\ ~inv.bot
    /\ inv.stage = "CommandOnCooldown" /\ inv.retry_after > 0
    /\ config_cache_from_file # EmptyDict
    /\ now > 0

\* the key paths of a tree of nested dicts
RECURSIVE KeyPaths(_)
KeyPaths(tree) ==
    IF ~IsDict(tree) THEN {}
    ELSE UNION {{<<k>>} \cup {<<k>> \o p : p \in KeyPaths(tree.c[k])} : k \in DOMAIN tree.c}

\* C24: every key path of the default tree exists in every tree that
\* get_guild_config has returned, for every guild and whatever calls of
\* set_guild_config have succeeded.
C24_DefaultPathsPresent ==
    (lastOp.op = "get" /\ lastOp.ok) =>
        \A p \in KeyPaths(get_default_config) : HasPath(config_cache[lastOp.g], p)

\* C26: once get_guild_config(g) has returned a tree, and as long as no
\* set_guild_config, load_config or save_config runs, a further call for g
\* finds g in the cache and returns that same tree, which the first call stored.
C26_SecondCallHitsCache ==
    \A g \in Guilds :
        recent[g].calls > 0 =>
            /\ g \in DOMAIN config_cache
            /\ config_cache[g] = recent[g].tree
            /\ get_result(g) = [ok |-> TRUE, tree |-> recent[g].tree]

\* a second call for a guild with overrides was made, after a call for the other
C26_Witness ==
    /\ lastOp.op = "get"
    /\ recent[lastOp.g].calls = 2
    /\ recent[lastOp.g].tree # get_default_config
    /\ \E h \in Guilds \ {lastOp.g} : recent[h].calls > 0

\* the step is one of a save_config
IsSaveStep ==
    \/ pc' \in SavePcs /\ pc' # pc
    \/ pc \in SavePcs /\ pc' = "idle" /\ lastOp'.op = "save"

\* C27: when a save_config has succeeded the cache holds no guild, so that the
\* next get_guild_config of any guild merges its overrides anew, and no step of
\* a save_config changes the override document.
C27_SaveClearsWholeCache ==
    [][/\ nsaves' = nsaves + 1 =>
            /\ config_cache' = <<>>
            /\ \A g \in Guilds :
                (IsDict(config_cache_from_file) /\ IsDict(SavedSettings(g)))
                => get_result(g)' = [ok |-> TRUE, tree |-> Merged(SavedSettings(g))]
       /\ IsSaveStep => config_cache_from_file' = config_cache_from_file]_vars

\* a save_config has succeeded while a guild had overrides, and these are the
\* ones it wrote
C27_Witness ==
    /\ lastOp = Op("save", TRUE)
    /\ config_cache = <<>>
    /\ IsDict(config_cache_from_file)
    /\ \E g \in Guilds : SavedSettings(g) # EmptyDict
    /\ saved.doc = config_cache_from_file

\* ------------------------------------------------------- properties of the objects

\* t is the deep merge of the overrides u onto the defaults d
RECURSIVE IsDeepMerge(_, _, _)
IsDeepMerge(d, u, t) ==
    /\ IsDict(t)
    /\ DOMAIN t.c = DOMAIN d.c \cup DOMAIN u.c
    /\ \A k \in DOMAIN d.c \ DOMAIN u.c : t.c[k] = d.c[k]
    /\ \A k \in DOMAIN u.c :
        IF IsDict(u.c[k]) /\ k \in DOMAIN d.c /\ IsDict(d.c[k])
        THEN IsDeepMerge(d.c[k], u.c[k], t.c[k])
        ELSE t.c[k] = u.c[k]

\* the overrides of a guild in the override document, as a tree
OverridesRef(guild_id) == Overrides(Value(heap, Ref(raw_ref)), guild_id)

\* the step is a get_guild_config that merged
IsMerge == lastRef'.op = "get" /\ lastRef'.ok /\ nobjs' = nobjs + 1

\* C23: the tree a get_guild_config that misses the cache returns is the deep
\* merge of the guild's overrides onto the defaults: at a key of the overrides
\* the merge recurses when both values are mappings, else the override value
\* stands there whole, and the other keys of the defaults keep their values;
\* the merge leaves the override document as it was.
C23_DeepMerge ==
    [][IsMerge =>
        \A g \in Guilds : lastRef'.g = g =>
            /\ IsDeepMerge(get_default_config, OverridesRef(g),
                           Value(heap', Ref(lastRef'.at)))
            /\ Value(heap', Ref(lastRef'.at)) =
                    _recursive_update(get_default_config, OverridesRef(g))
            /\ Value(heap', Ref(raw_ref')) = Value(heap, Ref(raw_ref))]_vars

\* the merge of overrides with a key the defaults lack, a list in place of a
\* list and a mapping to recurse into
C23_Witness ==
    /\ lastRef.op = "get" /\ lastRef.ok /\ ~lastRef.hit
    /\ LET t == Value(heap, Ref(lastRef.at))
       IN  /\ "extra" \in DOMAIN t.c
           /\ t.c["moderation"].c["allowed_roles"] = List(<<Num(7)>>)
           /\ t.c["welcome"].c["embed"].c["title"] = Str("Hi")
           /\ t.c["welcome"].c["embed"].c["enabled"] = Bool(TRUE)

\* the tree the cache holds for guild_id, if any
CachedTree(guild_id) ==
    IF guild_id \in DOMAIN cache_refs THEN <<Value(heap, Ref(cache_refs[guild_id]))>>
    ELSE <<>>

\* the objects written into by callers, among those reached from a, and the
\* guilds whose trees these callers wrote into
WrittenIn(h, a) == {b \in Reach(h, a) : "written" \in DOMAIN h[b].c}
WritersIn(h, a) == {h[b].c["written"].n : b \in WrittenIn(h, a)}

\* C25: the trees of two guilds have no dict or list in common; the tree of a
\* cache miss is a new object and the defaults in it are objects no caller has
\* written into; a write into a dict or list of the tree returned for a guild
\* changes the tree of no other guild, and shows in no tree returned for
\* another guild later.
C25_NoSharedDefaults ==
    [][/\ \A g \in DOMAIN cache_refs', h \in DOMAIN cache_refs' :
            g # h => Reach(heap', cache_refs'[g]) \cap Reach(heap', cache_refs'[h]) = {}
       /\ IsMerge =>
            /\ lastRef'.at \notin DOMAIN heap
            /\ WrittenIn(heap', lastRef'.at) \subseteq Reach(heap', raw_ref')
       /\ \A h \in DOMAIN cache_refs' : WritersIn(heap', cache_refs'[h]) \subseteq {h}
       /\ nwrites' = nwrites + 1 =>
            \A g \in Guilds : lastRef'.g = g =>
                \A h \in Guilds \ {g} : CachedTree(h)' = CachedTree(h)]_vars

\* a caller has written into a default dict of the tree of one guild, and then
\* a get_guild_config of the other guild has merged
C25_Witness ==
    /\ lastRef.op = "get" /\ lastRef.ok /\ ~lastRef.hit
    /\ nwrites = 1
    /\ \E g \in DOMAIN cache_refs \ {lastRef.g} :
            \E a \in WrittenIn(heap, cache_refs[g]) :
                /\ a[1] = cache_refs[g][1]
                /\ a[2] = <<"welcome", "embed">>

\* ------------------------------------------------------- giveaway properties

\* C28: for each giveaway the winners are drawn at most once and announced at
\* most once, however the iterations of check_giveaways and the g-end commands
\* interleave.
C28_EndedOnce ==
    \A m \in MessageIds : ended_log[m].draws <= 1 /\ ended_log[m].replies <= 1

\* the giveaway was stored, is not ended and its end time has passed
Due(m) == giveaways[m].stored /\ giveaways[m].is_ended = 0 /\ giveaways[m].end_timestamp < clock

\* C29: a stored giveaway that is not ended and whose end time has passed is
\* marked is_ended = 1 in the end by the loop check_giveaways, whatever the calls
\* to the platform made while ending it or another one return.
C29_DueIsEnded ==
    \A m \in MessageIds : Due(m) ~> (giveaways[m].is_ended = 1)

\* ------------------------------------------------------- database properties

\* the writes that stand between their statement and the end of their block
Writing == {w \in WriterTasks : writers[w].pc \in {"statement", "commit", "rollback"}}

\* C30: the writes of DatabaseManager are serialised: at most one of execute,
\* executemany, remove_auto_response and init stands between its statement and
\* its commit, and it holds the lock; a commit makes permanent the changes of
\* the write that calls it and of no other; the lock is free once a write has
\* returned or raised.
C30_WritesSerialised ==
    /\ Cardinality(Writing) <= 1
    /\ \A w \in Writing : db_lock = writers[w].id
    /\ Writing = {} => db_lock = 0
    /\ \A c \in committed : c.by = c.write

\* ------------------------------------------------------- C37, C38

\* C37: after load_config has returned, whatever config.json held, the override
\* document in memory is a mapping.
C37_LoadGivesMapping ==
    lastOp.op = "load" => IsDict(config_cache_from_file)

\* C38: the tree get_guild_config returned shares no dict and no list with the
\* override document, so a write into a returned tree leaves the document alone.
C38_NoSharingWithRaw ==
    \A g \in DOMAIN cache_refs :
        Reach(heap, cache_refs[g]) \cap Reach(heap, raw_ref) = {}

\* ------------------------------------------------------- C39, C40

\* C39: over any sequence of on_ready events the online status message is sent
\* and the presence is set at most once, both by the handler of the first
\* event, which logs no reconnect; the handler of every later event only logs
\* a reconnect and returns.
C39_FirstReadyOnce ==
    /\ status_sent <= 1
    /\ presence_set <= 1
    /\ ready[1].did \subseteq {"status", "presence"}
    /\ status_sent = (IF "status" \in ready[1].did THEN 1 ELSE 0)
    /\ presence_set = (IF "presence" \in ready[1].did THEN 1 ELSE 0)
    /\ ready[1].pc = "returned" => "presence" \in ready[1].did
    /\ \A i \in ReadyEvents \ {1} :
        /\ ready[i].pc \in {"none", "scheduled", "returned"}
        /\ ready[i].did = (IF ready[i].pc = "returned" THEN {"log"} ELSE {})
    /\ reconnect_logs = Cardinality({i \in ReadyEvents \ {1} : ready[i].pc = "returned"})

\* the first handler has sent the status message and set the presence, at
\* least two reconnects were logged and the last event waits for its handler
C39_Witness ==
    /\ ready[1].pc = "returned"
    /\ ready[1].did = {"status", "presence"}
    /\ reconnect_logs >= 2
    /\ ready[MaxReady].pc = "scheduled"

\* C40: in the help view of a category, whatever the number of its commands
\* (none included), the current page index is at least 0 and less than
\* total_pages.
C40_PageInRange ==
    view.open => 0 <= view.current_page /\ view.current_page < view.total_pages

\* ------------------------------------------------------- C31

\* C31: while close() has not been called at most one connection is opened,
\* one task at a time is inside the block of _get_db, and every task that has
\* its connection has that one; and a call of _get_db during which no close()
\* was under way returns a connection that is open, never one that was closed.
C31_OneConnection ==
    /\ Cardinality({t \in GetterTasks : getters[t].pc \in {"connect", "pragma"}}) <= 1
    /\ ncloses = 0 =>
        /\ nconns <= 1
        /\ \A t \in GetterTasks : getters[t].pc = "has_db" => getters[t].db = 1
    /\ \A t \in GetterTasks :
        (getters[t].pc = "has_db" /\ ~getters[t].overlap) => getters[t].open

\* one task still holds the first connection, which close() has closed, and a
\* task that called _get_db after that close() holds the second
C31_Witness ==
    /\ 1 \in closed
    /\ \E t, u \in GetterTasks :
        /\ getters[t].pc = "has_db" /\ getters[t].db = 1
        /\ getters[u].pc = "has_db" /\ getters[u].db = 2 /\ ~getters[u].overlap
        /\ getters[u].open

\* ------------------------------------------------------- C32

\* the rows the last call found with its guild and trigger
FoundBefore == RowsOf(response_call.before, response_call.guild_id, response_call.trigger)

\* C32: add_auto_response returns True and stores the response when no response
\* with the same guild and trigger exists, and returns False and changes no
\* stored response when one exists; there is at most one response for a guild
\* and trigger; remove_auto_response returns True exactly when it deleted a row.
C32_UniqueTriggers ==
    /\ \A r, q \in auto_responses :
        (r.guild_id = q.guild_id /\ r.trigger = q.trigger) => r = q
    /\ (response_call.op = "add" /\ response_call.ret # "raised") =>
        IF FoundBefore = {}
        THEN /\ response_call.ret = "True"
             /\ \E r \in auto_responses \ response_call.before :
                    /\ r.guild_id = ToString(response_call.guild_id)
                    /\ r.trigger = response_call.trigger
                    /\ r.response = response_call.response
        ELSE /\ response_call.ret = "False"
             /\ auto_responses = response_call.before
    /\ (response_call.op = "remove" /\ response_call.ret # "raised") =>
        (response_call.ret = "True" <=> auto_responses # response_call.before)

\* ------------------------------------------------------- C33 .. C36

\* C33: in the database created by init, once g-start has posted a giveaway
\* message and its INSERT is over, table giveaways holds the record of that
\* message, not ended and with the requested end time.
C33_PostedHasRecord ==
    \A m \in MessageIds :
        (/\ giveaways_columns = GiveawaysColumns
         /\ posted[m].posted
         /\ ~(starter.pc = "insert" /\ starter.m = m))
        => /\ giveaways[m].stored
           /\ giveaways[m].is_ended = 0

\* the step is a g-end command for the message named in tasks'
IsGEnd == tasks["g_end"].pc = "rest" /\ tasks'["g_end"] # tasks["g_end"]

\* C34: is_ended of a giveaway only goes from 0 to 1 and a stored record stays;
\* the loop check_giveaways sets it only after end_timestamp; g-end for an
\* unknown or ended giveaway, and g-reroll for an unknown or active one, are
\* refused, and they change neither table.
C34_OneWay ==
    [][/\ \A m \in MessageIds :
            /\ giveaways[m].stored => giveaways'[m].stored
            /\ giveaways[m].is_ended = 1 => giveaways'[m].is_ended = 1
            /\ (at_end'[m].ended /\ at_end'[m].by = "check_giveaways")
                => at_end'[m].clock > giveaways'[m].end_timestamp
       /\ IsGEnd =>
            LET m == tasks'["g_end"].g
            IN  (~giveaways[m].stored \/ giveaways[m].is_ended = 1)
                => /\ tasks'["g_end"].pc = "rest"
                   /\ tasks'["g_end"].reply = "No active giveaway found"
                   /\ giveaways' = giveaways
                   /\ giveaway_entrants' = giveaway_entrants
       /\ reroll' # NoReroll =>
            LET m == reroll'.m
            IN  /\ giveaways' = giveaways
                /\ giveaway_entrants' = giveaway_entrants
                /\ (~giveaways[m].stored \/ giveaways[m].is_ended = 0)
                    <=> reroll'.reply = "This giveaway has not ended yet."
      ]_vars

\* g-end has ended a giveaway before its end time, and a second g-end for it
\* was refused
C34_Witness ==
    \E m \in MessageIds :
        /\ at_end[m].ended
        /\ at_end[m].by = "g_end"
        /\ at_end[m].clock < giveaways[m].end_timestamp
        /\ tasks["g_end"] = [Resting EXCEPT !.reply = "No active giveaway found", !.g = m]

\* C35: table giveaway_entrants holds at most one row for a message and a
\* user, and none for a bot or for a user without the required role.
C35_EnteredAtMostOnce ==
    \A m \in MessageIds, u \in Members :
        /\ giveaway_entrants[<<m, u>>] <= 1
        /\ IsBotUser(u) => giveaway_entrants[<<m, u>>] = 0
        /\ (posted[m].required_role # 0 /\ posted[m].required_role \notin RolesOf(u))
            => giveaway_entrants[<<m, u>>] = 0

\* two presses of one member were handled at the same time: both found no
\* row, one inserted it and the INSERT of the other failed
C35_Witness ==
    \E j \in JoinTasks :
        /\ joins[j].pc = "IntegrityError"
        /\ giveaway_entrants[<<joins[j].m, joins[j].user>>] = 1

====
